---- MODULE Spec2Model ----
(***************************************************************************)
(* A model of github.com/observeinc/mustache: the render engine            *)
(* (mustache.go), the context-chain lookup (lookup.go) and the Template    *)
(* object with its partial map.                                            *)
(*                                                                         *)
(* Go strings are sequences of one-character strings, so that formatting   *)
(* and escaping are computed character by character.  Go values handed to  *)
(* Render as context are tagged records (kind = "nil", "int", "string",    *)
(* "bool", "slice", "map").  A *Template is a template identity; its       *)
(* fields are the variables elems, partials and silentMiss.                *)
(***************************************************************************)
EXTENDS Integers, Sequences, FiniteSets, TLC

VARIABLES
    elems,       \* Template.elems:      template -> sequence of nodes
    partials,    \* Template.partials:   template -> (name -> template)
    silentMiss,  \* Template.silentMiss: template -> BOOLEAN
    ctxs,        \* the context chains the caller may hand to Render
    procs,       \* the goroutines that call Render
    stack,       \* per goroutine: the call stack of render frames
    out,         \* per goroutine: what the render has written to its sink
    status,      \* per goroutine: the Render call in progress or finished
    nrenders,    \* number of Render calls made so far
    history,     \* the finished Render calls, in order of completion
    log,         \* per goroutine: the node.render calls of the current Render
    wrote,       \* per goroutine: templates whose partials field it assigned
    look,        \* a call of lookup or truth: its arguments and its results
    conf,        \* Template.startDelim, endDelim, testValueSection and escape of main
    parsed,      \* the last call of Parse on main: its input and how it ended
    lex          \* a lexer on its own and the tokens its client has received

vars == <<elems, partials, silentMiss, ctxs, procs, stack, out, status,
          nrenders, history, log, wrote, look, conf, parsed, lex>>

\* What a Render call leaves alone
pvars == <<look, conf, parsed, lex>>

(***************************************************************************)
(* Bounds of the model.                                                    *)
(***************************************************************************)
\* Number of Render calls in one behaviour.
MaxRenders == 2
\* Longest slice handed to a section.
MaxListLen == 2
\* Deepest call stack of render frames explored.
MaxDepth == 12
\* Longest context chain handed to lookup.
MaxChain == 2
\* Deepest nesting of sections of one name handed to Parse.
MaxNest == 3
\* Number of tokens of a lexer on its own that are kept once received.
MaxTokens == 12

(***************************************************************************)
(* Strings.                                                                *)
(***************************************************************************)
RECURSIVE Concat(_)
\* strings.Builder / strings.Join with an empty separator.
Concat(ss) == IF ss = << >> THEN << >> ELSE Head(ss) \o Concat(Tail(ss))

\* s[i..j] with Go's bounds swapped to 1-based inclusive.
Slice(s, i, j) == [k \in 1..(j - i + 1) |-> s[i + k - 1]]

\* strings.Contains(s, sub)
Contains(s, sub) ==
    \E i \in 1..(Len(s) - Len(sub) + 1) : Slice(s, i, i + Len(sub) - 1) = sub

\* strings.Index(s, ".") (1-based; 0 when there is none)
IndexDot(s) ==
    IF \E i \in 1..Len(s) : s[i] = "."
    THEN CHOOSE i \in 1..Len(s) : s[i] = "." /\ \A j \in 1..(i - 1) : s[j] # "."
    ELSE 0

Digits == <<"0", "1", "2", "3", "4", "5", "6", "7", "8", "9">>

IsDigit(c) == \E d \in 1..10 : Digits[d] = c

DigitVal(c) == (CHOOSE d \in 1..10 : Digits[d] = c) - 1

RECURSIVE ParseDigits(_, _)
ParseDigits(s, acc) ==
    IF s = << >> THEN acc ELSE ParseDigits(Tail(s), acc * 10 + DigitVal(Head(s)))

\* strconv.Atoi: an optional sign followed by one or more decimal digits.
Atoi(s) ==
    LET body == IF s # << >> /\ Head(s) \in {"+", "-"} THEN Tail(s) ELSE s
        neg  == s # << >> /\ Head(s) = "-"
    IN  IF body = << >> \/ \E i \in 1..Len(body) : ~IsDigit(body[i])
        THEN [err |-> TRUE, n |-> 0]
        ELSE [err |-> FALSE,
              n |-> IF neg THEN 0 - ParseDigits(body, 0) ELSE ParseDigits(body, 0)]

RECURSIVE FormatNat(_)
FormatNat(n) ==
    IF n < 10 THEN <<Digits[n + 1]>>
    ELSE FormatNat(n \div 10) \o <<Digits[(n % 10) + 1]>>

\* fmt.Sprintf("%d", i)
FormatInt(i) == IF i < 0 THEN <<"-">> \o FormatNat(0 - i) ELSE FormatNat(i)

(***************************************************************************)
(* Go values.                                                              *)
(***************************************************************************)
NilV == [kind |-> "nil"]
IntV(i) == [kind |-> "int", i |-> i]
StrV(s) == [kind |-> "string", s |-> s]
BoolV(b) == [kind |-> "bool", b |-> b]
SliceV(es) == [kind |-> "slice", elems |-> es]
\* m is a function from strings (keys) to values
MapV(m) == [kind |-> "map", m |-> m]

\* An unsigned integer
UintV(u) == [kind |-> "uint", u |-> u]
\* A float, f being ten times its value
FloatV(f) == [kind |-> "float", f |-> f]
\* A pointer; elem is NilV for the nil pointer
PtrV(e) == [kind |-> "ptr", elem |-> e]
\* A field of a struct type: pkgPath is empty for an exported field
Field(name, pkgPath, tag, v) == [name |-> name, pkgPath |-> pkgPath, tag |-> tag, v |-> v]
\* An exported method: numIn is the number of its arguments, the receiver
\* not counted, as the Type() of a method Value reports it
Method(numIn, res) == [numIn |-> numIn, out |-> res]
\* fields is the sequence of the fields in declaration order, methods a
\* function from the names of the exported methods
StructV(fields, methods) == [kind |-> "struct", fields |-> fields, methods |-> methods]

\* The empty map[string]interface{}
EmptyMap == [k \in {} |-> NilV]

RECURSIVE MutTruthNonZero(_)
MutTruthNonZero(v) ==
    CASE v.kind = "slice" -> Len(v.elems) > 0
      [] v.kind = "int" -> v.i # 0
      [] v.kind = "uint" -> v.u # 0
      [] v.kind = "float" -> v.f # 0
      [] v.kind = "string" -> v.s # << >>
      [] v.kind = "bool" -> v.b
      [] v.kind = "ptr" -> MutTruthNonZero(v.elem)
      [] v.kind = "nil" -> FALSE
      [] OTHER -> TRUE

RECURSIVE truth(_)
\* truth(r reflect.Value)
truth(v) ==
    CASE v.kind = "slice" -> Len(v.elems) > 0
      [] v.kind = "int" -> v.i > 0
      [] v.kind = "uint" -> v.u > 0
      [] v.kind = "float" -> v.f > 0
      [] v.kind = "string" -> v.s # << >>
      [] v.kind = "bool" -> v.b
      [] v.kind = "ptr" -> truth(v.elem)
      [] v.kind = "nil" -> FALSE
      [] OTHER -> TRUE

\* What a lookup returns when nothing matched: nil, false, false
NotFound == [v |-> NilV, ok |-> FALSE, found |-> FALSE, panic |-> FALSE]
\* A match: the value, its truth, true
Found(v) == [v |-> v, ok |-> truth(v), found |-> TRUE, panic |-> FALSE]
\* A call that panics returns nothing
Panics == [v |-> NilV, ok |-> FALSE, found |-> TRUE, panic |-> TRUE]

\* lookup_map: (value, ok, found)
lookup_map(name, c) ==
    IF name \in DOMAIN c.m
    THEN Found(c.m[name])
    ELSE NotFound

\* lookup_struct: (value, ok, found)
lookup_struct(name, c) ==
    LET \* FieldByName(name): the field of that name, if any
        byName == {i \in 1..Len(c.fields) : c.fields[i].name = name}
        \* the fields the loop over typ.Field(i) does not skip and whose
        \* mustache tag is the name
        tagged == {i \in 1..Len(c.fields) :
                      c.fields[i].pkgPath = << >> /\ c.fields[i].tag = name}
    IN  IF byName # {} /\ c.fields[CHOOSE i \in byName : TRUE].pkgPath = << >>
        THEN Found(c.fields[CHOOSE i \in byName : TRUE].v)
        ELSE IF name \in DOMAIN c.methods /\ c.methods[name].numIn = 1
        THEN \* method.Call(nil) of a method that takes one argument
             Panics
        ELSE IF tagged # {}
        THEN Found(c.fields[CHOOSE i \in tagged : \A j \in tagged : i <= j].v)
        ELSE NotFound

\* lookup_array: (value, ok, found)
MutLookupArrayMissStops(name, c) ==
    LET a == Atoi(name)
    IN  IF a.err THEN NotFound
        ELSE IF Len(c.elems) <= a.n \/ a.n < 0
             THEN Found(NilV)
             ELSE Found(c.elems[a.n + 1])

lookup_array(name, c) ==
    LET a == Atoi(name)
    IN  IF a.err THEN NotFound
        ELSE IF Len(c.elems) <= a.n \/ a.n < 0
             THEN NotFound
             ELSE Found(c.elems[a.n + 1])

\* The per-context switch of lookup's loop.
lookupIn(name, c) ==
    CASE c.kind = "map" -> lookup_map(name, c)
      [] c.kind = "struct" -> lookup_struct(name, c)
      [] c.kind = "slice" -> lookup_array(name, c)
      [] OTHER -> NotFound

RECURSIVE MutLookupPlainSkipFalsy(_, _)
MutLookupPlainSkipFalsy(name, chain) ==
    IF chain = << >> THEN [v |-> NilV, ok |-> FALSE, panic |-> FALSE]
    ELSE IF name = <<".">>
    THEN [v |-> Head(chain), ok |-> truth(Head(chain)), panic |-> FALSE]
    ELSE LET r == lookupIn(name, Head(chain))
         IN  IF r.found /\ r.ok THEN [v |-> r.v, ok |-> r.ok, panic |-> r.panic]
             ELSE MutLookupPlainSkipFalsy(name, Tail(chain))

RECURSIVE lookupPlain(_, _)
\* The loop of lookup over the context chain, innermost (index 1) first.
lookupPlain(name, chain) ==
    IF chain = << >> THEN [v |-> NilV, ok |-> FALSE, panic |-> FALSE]
    ELSE IF name = <<".">>
    THEN [v |-> Head(chain), ok |-> truth(Head(chain)), panic |-> FALSE]
    ELSE LET r == lookupIn(name, Head(chain))
         IN  IF r.found THEN [v |-> r.v, ok |-> r.ok, panic |-> r.panic]
             ELSE lookupPlain(name, Tail(chain))

MutLookupSuffixFallsBack(name, chain) ==
    IF name # <<".">> /\ Contains(name, <<".">>)
    THEN LET d == IndexDot(name)
             first == lookupPlain(Slice(name, 1, d - 1), chain)
         IN  IF first.ok
             THEN lookupPlain(Slice(name, d + 1, Len(name)), <<first.v>> \o chain)
             ELSE [v |-> NilV, ok |-> FALSE, panic |-> first.panic]
    ELSE lookupPlain(name, chain)

RECURSIVE lookup(_, _)
\* lookup(name, context...): (value, truth)
lookup(name, chain) ==
    IF name # <<".">> /\ Contains(name, <<".">>)
    THEN LET d == IndexDot(name)
             first == lookup(Slice(name, 1, d - 1), chain)
         IN  IF first.ok
             THEN lookup(Slice(name, d + 1, Len(name)), <<first.v>>)
             ELSE [v |-> NilV, ok |-> FALSE, panic |-> first.panic]
    ELSE lookupPlain(name, chain)

(***************************************************************************)
(* Formatting and escaping (print, escapeHtml, escapeJson).                *)
(***************************************************************************)
\* The characters of the model's strings, in code-point order.
Alphabet ==
    <<"\n", " ", "\"", "&", "'", "(", ")", "+", ",", "-", ".",
      "0", "1", "2", "3", "4", "5", "6", "7", "8", "9", ":", "<", ">",
      "A", "B", "I", "O", "X", "[", "\\", "]",
      "a", "b", "c", "d", "e", "f", "g", "h", "i", "k", "l", "m", "n", "o",
      "p", "q", "r", "s", "t", "u", "v", "w", "x", "y", "z", "{", "}">>

Ord(c) == CHOOSE i \in 1..Len(Alphabet) : Alphabet[i] = c

RECURSIVE StrLess(_, _)
\* a < b on Go strings (the order encoding/json sorts map keys by)
StrLess(a, b) ==
    IF b = << >> THEN FALSE
    ELSE IF a = << >> THEN TRUE
    ELSE IF Head(a) = Head(b) THEN StrLess(Tail(a), Tail(b))
    ELSE Ord(Head(a)) < Ord(Head(b))

RECURSIVE SortedKeys(_)
SortedKeys(S) ==
    IF S = {} THEN << >>
    ELSE LET k == CHOOSE x \in S : \A y \in S \ {x} : StrLess(x, y)
         IN  <<k>> \o SortedKeys(S \ {k})

RECURSIVE escapeJsonBody(_)
\* The body of the JSON string literal for s, HTML escaping off.
escapeJsonBody(s) ==
    IF s = << >> THEN << >>
    ELSE (CASE Head(s) = "\"" -> <<"\\", "\"">>
            [] Head(s) = "\\" -> <<"\\", "\\">>
            [] Head(s) = "\n" -> <<"\\", "n">>
            [] OTHER -> <<Head(s)>>) \o escapeJsonBody(Tail(s))

\* escapeJson: encode s as JSON, drop the quotes and the trailing newline
escapeJson(s) ==
    LET enc == <<"\"">> \o escapeJsonBody(s) \o <<"\"", "\n">>
    IN  Slice(enc, 2, Len(enc) - 2)

RECURSIVE escapeHtml(_)
escapeHtml(s) ==
    IF s = << >> THEN << >>
    ELSE (CASE Head(s) = "\"" -> <<"&", "q", "u", "o", "t", ";">>
            [] Head(s) = "'" -> <<"&", "a", "p", "o", "s", ";">>
            [] Head(s) = "&" -> <<"&", "a", "m", "p", ";">>
            [] Head(s) = "<" -> <<"&", "l", "t", ";">>
            [] Head(s) = ">" -> <<"&", "g", "t", ";">>
            [] OTHER -> <<Head(s)>>) \o escapeHtml(Tail(s))

RECURSIVE JoinComma(_)
JoinComma(ss) ==
    IF ss = << >> THEN << >>
    ELSE IF Len(ss) = 1 THEN Head(ss)
    ELSE Head(ss) \o <<",">> \o JoinComma(Tail(ss))

RECURSIVE jsonEncode(_)
\* json.Encoder.Encode(v) with SetEscapeHTML(false), without the newline
jsonEncode(v) ==
    CASE v.kind = "nil" -> <<"n", "u", "l", "l">>
      [] v.kind = "bool" ->
            IF v.b THEN <<"t", "r", "u", "e">> ELSE <<"f", "a", "l", "s", "e">>
      [] v.kind = "int" -> FormatInt(v.i)
      [] v.kind = "string" -> <<"\"">> \o escapeJsonBody(v.s) \o <<"\"">>
      [] v.kind = "slice" ->
            <<"[">> \o JoinComma([i \in 1..Len(v.elems) |-> jsonEncode(v.elems[i])])
                    \o <<"]">>
      [] v.kind = "map" ->
            LET ks == SortedKeys(DOMAIN v.m)
            IN  <<"{">> \o JoinComma([i \in 1..Len(ks) |->
                              <<"\"">> \o escapeJsonBody(ks[i]) \o <<"\"", ":">>
                              \o jsonEncode(v.m[ks[i]])])
                        \o <<"}">>

\* print(w, v, needEscape): the string written to w
print(v, needEscape) ==
    LET output == CASE v.kind = "string" -> v.s
                    [] v.kind = "int" -> FormatInt(v.i)
                    [] OTHER -> jsonEncode(v)
    IN  CASE needEscape = "htmlEscape" -> escapeHtml(output)
          [] needEscape = "jsonEscape" -> escapeJson(output)
          [] OTHER -> output

(***************************************************************************)
(* Nodes of the parse tree.                                                *)
(***************************************************************************)
textNode(s) == [type |-> "text", text |-> s]
varNode(name, escape) == [type |-> "var", name |-> name, escape |-> escape]
sectionNode(name, inverted, es) ==
    [type |-> "section", name |-> name, inverted |-> inverted, elems |-> es]
partialNode(name) == [type |-> "partial", name |-> name]

(***************************************************************************)
(* Errors.  nil is NoErr; fmt.Errorf("failed to lookup %s", name) is a     *)
(* lookup error; ErrorSlice is a sequence of errors.                       *)
(***************************************************************************)
NoErr == [kind |-> "nil"]
LookupErr(name) == [kind |-> "lookup", name |-> name]
ErrorSlice(es) == [kind |-> "slice", errs |-> es]

FailedToLookup ==
    <<"f", "a", "i", "l", "e", "d", " ", "t", "o", " ",
      "l", "o", "o", "k", "u", "p", " ">>

RECURSIVE JoinCommaSpace(_)
JoinCommaSpace(ss) ==
    IF ss = << >> THEN << >>
    ELSE IF Len(ss) = 1 THEN Head(ss)
    ELSE Head(ss) \o <<",", " ">> \o JoinCommaSpace(Tail(ss))

RECURSIVE ErrorString(_)
\* err.Error()
ErrorString(e) ==
    CASE e.kind = "lookup" -> FailedToLookup \o e.name
      [] e.kind = "slice" ->
            <<"[">> \o JoinCommaSpace([i \in 1..Len(e.errs) |-> ErrorString(e.errs[i])])
                    \o <<"]">>
      [] OTHER -> << >>

(***************************************************************************)
(* Templates.                                                              *)
(***************************************************************************)
\* Template.name of the three Template objects of the model
TName(t) ==
    CASE t = "main" -> <<"m", "a", "i", "n">>
      [] t = "outer" -> <<"o", "u", "t", "e", "r">>
      [] t = "inner" -> <<"i", "n", "n", "e", "r">>

\* make(map[string]*Template)
EmptyPartials == [k \in {} |-> "main"]

\* Partial(p) applied to the partial map m: m[p.name] = p
Partial(m, pt) == [k \in DOMAIN m \cup {TName(pt)} |-> IF k = TName(pt) THEN pt ELSE m[k]]

(***************************************************************************)
(* Render frames: one per active call of Template.render,                  *)
(* sectionNode.render or partialNode.render.  The head of a stack is the   *)
(* innermost call.                                                         *)
(***************************************************************************)
Procs == {1, 2}

\* Template.render(w, context...): the loop position over t.elems
TemplateFrame(t, c, es) ==
    [kind |-> "template", t |-> t, c |-> c, elems |-> es, idx |-> 1,
     done |-> FALSE, ret |-> NoErr]

\* The values elemFn is called with, in order, after the lookup of the
\* section's name: sectionNode.render's `if ok != n.inverted` block.
MutSectionItemsNoIter(n, c) ==
    LET lk == lookup(n.name, c)
    IN  IF lk.ok # n.inverted THEN <<lk.v>> ELSE << >>

MutSectionItemsAlways(n, c) ==
    LET lk == lookup(n.name, c)
    IN  IF n.inverted THEN <<lk.v>>
        ELSE IF lk.ok
        THEN IF lk.v.kind = "slice" /\ Len(lk.v.elems) > 0 THEN lk.v.elems ELSE <<lk.v>>
        ELSE << >>

SectionItems(n, c) ==
    LET lk == lookup(n.name, c)
    IN  IF lk.ok # n.inverted
        THEN IF lk.v.kind = "slice" /\ Len(lk.v.elems) > 0 THEN lk.v.elems ELSE <<lk.v>>
        ELSE << >>

\* sectionNode.render: errs, and the position of elemFn's loops
SectionFrame(t, c, n) ==
    [kind |-> "section", t |-> t, c |-> c, node |-> n, items |-> SectionItems(n, c),
     idx |-> 1, errs |-> << >>, look |-> lookup(n.name, c), calls |-> << >>]

\* partialNode.render after `template.partials = make(...)`: src is the map
\* `range t.partials` iterates, keys the entries it has yet to visit.
PartialFrame(t, c, name, tmpl, src) ==
    [kind |-> "partial", t |-> t, c |-> c, name |-> name, tmpl |-> tmpl,
     src |-> src, keys |-> DOMAIN src, called |-> FALSE, done |-> FALSE,
     ret |-> NoErr]

\* testNode.render's test: the value of testIdent is not nil and print gives
\* testVal for it, unescaped
MutTestMatchesAnyValue(n, c) == lookup(n.testIdent, c).v # NilV

TestMatches(n, c) ==
    LET Same(v) == v # NilV /\ print(v, "noEscape") = n.testVal
    IN  Same(lookup(n.testIdent, c).v)

\* testNode.render: errs, whether the children are rendered, and the
\* position of the loop over n.elems
TestFrame(t, c, n) ==
    [kind |-> "test", t |-> t, c |-> c, node |-> n, on |-> TestMatches(n, c),
     idx |-> 1, errs |-> << >>, calls |-> << >>]

\* The frame has a child node to render next.
HasNext(f) ==
    \/ f.kind = "template" /\ ~f.done /\ f.idx <= Len(f.elems)
    \/ f.kind = "section" /\ f.items # << >> /\ f.node.elems # << >>
    \/ f.kind = "test" /\ f.on /\ f.idx <= Len(f.node.elems)

NextNode(f) == IF f.kind = "template" THEN f.elems[f.idx] ELSE f.node.elems[f.idx]

\* The context chain elemFn hands to a child: append(v, c...)
ElemChain(f) == <<Head(f.items)>> \o f.c

\* Template.render and testNode.render hand their own chain c to a child
NextChain(f) == IF f.kind \in {"template", "test"} THEN f.c ELSE ElemChain(f)

\* The frame's call has nothing left to do but return.
Finished(f) ==
    CASE f.kind = "template" -> f.done \/ f.idx > Len(f.elems)
      [] f.kind = "section" -> f.items = << >> \/ f.node.elems = << >>
      [] f.kind = "partial" -> f.done
      [] f.kind = "test" -> ~f.on \/ f.idx > Len(f.node.elems)

\* The error sectionNode.render returns: errs, unless empty or silenced.
MutSectionRetReportMiss(f, silent) ==
    IF silent THEN NoErr
    ELSE IF f.look.v = NilV THEN ErrorSlice(<<LookupErr(f.node.name)>> \o f.errs)
    ELSE IF f.errs # << >> THEN ErrorSlice(f.errs)
    ELSE NoErr

SectionRet(f, silent) ==
    IF f.errs # << >> /\ ~silent THEN ErrorSlice(f.errs) ELSE NoErr

RetVal(f) ==
    CASE f.kind = "template" -> IF f.done THEN f.ret ELSE NoErr
      [] f.kind = "section" -> SectionRet(f, silentMiss[f.t])
      [] f.kind = "partial" -> f.ret
      [] f.kind = "test" -> SectionRet(f, silentMiss[f.t])

\* Template.render's handling of the error a child returned.
MutTemplateAfterKeepGoing(f, err, silent) == [f EXCEPT !.idx = @ + 1]

TemplateAfter(f, err, silent) ==
    IF err # NoErr /\ ~silent
    THEN [f EXCEPT !.done = TRUE, !.ret = err]
    ELSE [f EXCEPT !.idx = @ + 1]

\* elemFn's handling of the error a child returned, and its loop step.
SectionAfter(f, err) ==
    LET e2 == IF err # NoErr THEN Append(f.errs, err) ELSE f.errs
    IN  IF f.idx = Len(f.node.elems)
        THEN [f EXCEPT !.errs = e2, !.idx = 1, !.items = Tail(@)]
        ELSE [f EXCEPT !.errs = e2, !.idx = @ + 1]

\* partialNode.render's handling of the error template.render returned.
PartialAfter(f, err, silent) ==
    [f EXCEPT !.done = TRUE, !.ret = IF err # NoErr /\ ~silent THEN err ELSE NoErr]

\* testNode.render's handling of the error a child returned, and its loop
\* step
TestAfter(f, err) ==
    [f EXCEPT !.errs = IF err # NoErr THEN Append(@, err) ELSE @, !.idx = @ + 1]

\* The calling frame once its child has returned err.
AfterChild(f, err) ==
    CASE f.kind = "template" -> TemplateAfter(f, err, silentMiss[f.t])
      [] f.kind = "section" -> SectionAfter(f, err)
      [] f.kind = "partial" -> PartialAfter(f, err, silentMiss[f.t])
      [] f.kind = "test" -> TestAfter(f, err)

\* The calling frame with the call it is making recorded.
Called(f, chain) ==
    CASE f.kind = "section" ->
            [f EXCEPT !.calls = Append(@, [item |-> Head(f.items), idx |-> f.idx,
                                           c |-> chain])]
      [] f.kind = "test" -> [f EXCEPT !.calls = Append(@, [idx |-> f.idx, c |-> chain])]
      [] OTHER -> f

\* The templates with a render call on the stack.
OnStack(st) == {st[i].t : i \in 1..Len(st)}

(***************************************************************************)
(* Leaf nodes.                                                             *)
(***************************************************************************)
\* writer.write / writer.Write: the sink after s has been written to it
Write(sink, s) == sink \o s

\* textNode.render: writes every rune of the text, returns nil
TextRender(n) == [w |-> n.text, err |-> NoErr]

\* varNode.render: what it writes and the error it returns
MutVarRenderTruthyOnly(n, c) ==
    LET lk == lookup(n.name, c)
    IN  IF lk.ok
        THEN [w |-> print(lk.v, n.escape), err |-> NoErr]
        ELSE [w |-> << >>, err |-> IF lk.v = NilV THEN LookupErr(n.name) ELSE NoErr]

MutVarRenderNoError(n, c) ==
    LET lk == lookup(n.name, c)
    IN  IF lk.v # NilV
        THEN [w |-> print(lk.v, n.escape), err |-> NoErr]
        ELSE [w |-> << >>, err |-> NoErr]

VarRender(n, c) ==
    LET lk == lookup(n.name, c)
    IN  IF lk.v # NilV
        THEN [w |-> print(lk.v, n.escape), err |-> NoErr]
        ELSE [w |-> << >>, err |-> LookupErr(n.name)]

(***************************************************************************)
(* The steps of a Render call.                                             *)
(***************************************************************************)
Top(p) == Head(stack[p])

Running(p) == p \in procs /\ status[p].state = "running" /\ stack[p] # << >>

CallEvent(p, n, chain) ==
    [ev |-> "call", node |-> n, t |-> Top(p).t, c |-> chain,
     path |-> OnStack(stack[p]), top |-> Len(stack[p]) = 1]

\* Template.Render(w, context...): newWriter(w), then t.render
RenderStart(p) ==
    /\ p \in procs
    /\ status[p].state # "running"
    /\ nrenders < MaxRenders
    /\ \E t \in DOMAIN elems, c \in ctxs :
          /\ stack' = [stack EXCEPT ![p] = <<TemplateFrame(t, c, elems[t])>>]
          /\ status' = [status EXCEPT ![p] =
                           [state |-> "running", t |-> t, c |-> c, err |-> NoErr,
                            before |-> partials]]
    /\ out' = [out EXCEPT ![p] = << >>]
    /\ log' = [log EXCEPT ![p] = << >>]
    /\ wrote' = [wrote EXCEPT ![p] = {}]
    /\ nrenders' = nrenders + 1
    /\ UNCHANGED <<pvars, elems, partials, silentMiss, ctxs, procs, history>>

\* elem.render(t, w, c...) where elem is a textNode or a varNode
CallLeaf(p) ==
    /\ Running(p)
    /\ HasNext(Top(p))
    /\ NextNode(Top(p)).type \in {"text", "var"}
    /\ LET f == Top(p)
           n == NextNode(f)
           chain == NextChain(f)
           r == IF n.type = "text" THEN TextRender(n) ELSE VarRender(n, chain)
       IN  /\ out' = [out EXCEPT ![p] = Write(@, r.w)]
           /\ stack' = [stack EXCEPT ![p] =
                           <<AfterChild(Called(f, chain), r.err)>> \o Tail(@)]
           /\ log' = [log EXCEPT ![p] =
                         Append(@, CallEvent(p, n, chain) @@ [w |-> r.w, err |-> r.err])]
    /\ UNCHANGED <<pvars, elems, partials, silentMiss, ctxs, procs, status, nrenders,
                   history, wrote>>

\* elem.render(t, w, c...) where elem is a sectionNode: up to the lookup
CallSection(p) ==
    /\ Running(p)
    /\ HasNext(Top(p))
    /\ NextNode(Top(p)).type = "section"
    /\ Len(stack[p]) < MaxDepth
    /\ LET f == Top(p)
           n == NextNode(f)
           chain == NextChain(f)
       IN  /\ stack' = [stack EXCEPT ![p] =
                           <<SectionFrame(f.t, chain, n), Called(f, chain)>> \o Tail(@)]
           /\ log' = [log EXCEPT ![p] = Append(@, CallEvent(p, n, chain))]
    /\ UNCHANGED <<pvars, elems, partials, silentMiss, ctxs, procs, out, status, nrenders,
                   history, wrote>>

\* elem.render(t, w, c...) where elem is a partialNode: the lookup of the
\* partial in t.partials and, when found, `template.partials = make(...)`
\* and the evaluation of the range expression t.partials
CallPartial(p) ==
    /\ Running(p)
    /\ HasNext(Top(p))
    /\ NextNode(Top(p)).type = "partial"
    /\ Len(stack[p]) < MaxDepth
    /\ LET f == Top(p)
           n == NextNode(f)
           chain == NextChain(f)
       IN  /\ log' = [log EXCEPT ![p] = Append(@, CallEvent(p, n, chain))]
           /\ IF n.name \in DOMAIN partials[f.t]
              THEN LET tmpl == partials[f.t][n.name]
                       made == [partials EXCEPT ![tmpl] = EmptyPartials]
                   IN  /\ partials' = made
                       /\ wrote' = [wrote EXCEPT ![p] = @ \cup {tmpl}]
                       /\ stack' = [stack EXCEPT ![p] =
                                       <<PartialFrame(f.t, chain, n.name, tmpl, made[f.t]),
                                         Called(f, chain)>> \o Tail(@)]
              ELSE /\ stack' = [stack EXCEPT ![p] =
                                   <<AfterChild(Called(f, chain), NoErr)>> \o Tail(@)]
                   /\ UNCHANGED <<partials, wrote>>
    /\ UNCHANGED <<pvars, elems, silentMiss, ctxs, procs, out, status, nrenders, history>>

\* elem.render(t, w, c...) where elem is a testNode: up to the test
CallTest(p) ==
    /\ Running(p)
    /\ HasNext(Top(p))
    /\ NextNode(Top(p)).type = "test"
    /\ Len(stack[p]) < MaxDepth
    /\ LET f == Top(p)
           n == NextNode(f)
           chain == NextChain(f)
       IN  /\ stack' = [stack EXCEPT ![p] =
                           <<TestFrame(f.t, chain, n), Called(f, chain)>> \o Tail(@)]
           /\ log' = [log EXCEPT ![p] = Append(@, CallEvent(p, n, chain))]
    /\ UNCHANGED <<pvars, elems, partials, silentMiss, ctxs, procs, out, status, nrenders,
                   history, wrote>>

\* The entry for key k that the copy loop stores in template.partials
MutCopyEntryKeepAll(f, k, m) ==
    [x \in DOMAIN m \cup {k} |-> IF x = k THEN f.src[k] ELSE m[x]]

CopyEntry(f, k, m) ==
    IF k # f.name
    THEN [x \in DOMAIN m \cup {k} |-> IF x = k THEN f.src[k] ELSE m[x]]
    ELSE m

\* One iteration of `for k, v := range t.partials` in partialNode.render
\* (Go visits the keys of a map in no fixed order)
PartialCopy(p) ==
    /\ Running(p)
    /\ Top(p).kind = "partial"
    /\ ~Top(p).called
    /\ \E k \in Top(p).keys :
          LET f == Top(p)
          IN  /\ partials' = [partials EXCEPT ![f.tmpl] = CopyEntry(f, k, @)]
              /\ stack' = [stack EXCEPT ![p] =
                              <<[f EXCEPT !.keys = @ \ {k}]>> \o Tail(@)]
    /\ UNCHANGED <<pvars, elems, silentMiss, ctxs, procs, out, status, nrenders, history,
                   log, wrote>>

\* template.render(w, c...) in partialNode.render, once the copy is over
PartialRender(p) ==
    /\ Running(p)
    /\ Top(p).kind = "partial"
    /\ ~Top(p).called
    /\ Top(p).keys = {}
    /\ Len(stack[p]) < MaxDepth
    /\ LET f == Top(p)
       IN  stack' = [stack EXCEPT ![p] =
                        <<TemplateFrame(f.tmpl, f.c, elems[f.tmpl]),
                          [f EXCEPT !.called = TRUE]>> \o Tail(@)]
    /\ UNCHANGED <<pvars, elems, partials, silentMiss, ctxs, procs, out, status, nrenders,
                   history, log, wrote>>

\* The return of Template.render, sectionNode.render or partialNode.render
\* to its caller; the outermost Template.render returns to Render's caller.
Return(p) ==
    /\ Running(p)
    /\ Finished(Top(p))
    /\ LET f == Top(p)
           r == RetVal(f)
           rest == Tail(stack[p])
       IN  /\ log' = [log EXCEPT ![p] =
                         Append(@, [ev |-> "ret", frame |-> f, ret |-> r,
                                    top |-> Len(stack[p]) = 1])]
           /\ IF rest = << >>
              THEN /\ stack' = [stack EXCEPT ![p] = << >>]
                   /\ status' = [status EXCEPT ![p].state = "done", ![p].err = r]
                   /\ history' = Append(history,
                                        [t |-> status[p].t, c |-> status[p].c,
                                         out |-> out[p], err |-> r, p |-> p])
              ELSE /\ stack' = [stack EXCEPT ![p] =
                                   <<AfterChild(Head(rest), r)>> \o Tail(rest)]
                   /\ UNCHANGED <<status, history>>
    /\ UNCHANGED <<pvars, elems, partials, silentMiss, ctxs, procs, out, nrenders, wrote>>

Next ==
    \E p \in Procs :
        \/ RenderStart(p)
        \/ CallLeaf(p)
        \/ CallSection(p)
        \/ CallPartial(p)
        \/ PartialCopy(p)
        \/ PartialRender(p)
        \/ Return(p)

(***************************************************************************)
(* The templates, configurations and contexts explored.                    *)
(***************************************************************************)
Nx == <<"x">>
Ny == <<"y">>
Nz == <<"z">>
Ndot == <<".">>

OuterText == <<"I", " ", "a", "m", " ", "t", "h", "e", " ", "o", "u", "t", "e", "r", ".">>
InnerText == <<"I", " ", "a", "m", " ", "t", "h", "e", " ", "i", "n", "n", "e", "r", ".">>

\* TestPartialsCannotCycle: `I am the outer.{{>inner}}`
OuterTree == <<textNode(OuterText), partialNode(TName("inner"))>>
\* TestPartialsCannotCycle: `I am the inner.{{>outer}}`
InnerTree == <<textNode(InnerText), partialNode(TName("outer"))>>
\* TestPartialsCannotCycle: `{{>outer}}`
CycleMain == <<partialNode(TName("outer"))>>

MainTrees ==
    { CycleMain,
      \* `X{{>main}}{{>outer}}`
      <<textNode(<<"X">>), partialNode(TName("main")), partialNode(TName("outer"))>>,
      \* `{{>inner}}{{#x}}{{>outer}}{{/x}}`
      <<partialNode(TName("inner")),
        sectionNode(Nx, FALSE, <<partialNode(TName("outer"))>>)>> }

SectionTrees ==
    { \* `{{#x}}({{.}}){{/x}}`
      <<sectionNode(Nx, FALSE, <<textNode(<<"(">>), varNode(Ndot, "htmlEscape"),
                                 textNode(<<")">>)>>)>>,
      \* `{{{.}}}{{^x}}{{{.}}}X{{/x}}`
      <<varNode(Ndot, "noEscape"),
        sectionNode(Nx, TRUE, <<varNode(Ndot, "noEscape"), textNode(<<"X">>)>>)>>,
      \* `{{x}}{{y}}A`
      <<varNode(Nx, "htmlEscape"), varNode(Ny, "htmlEscape"), textNode(<<"A">>)>>,
      \* `{{#x}}{{y}}{{z}}{{/x}}A{{y}}`
      <<sectionNode(Nx, FALSE, <<varNode(Ny, "htmlEscape"), varNode(Nz, "htmlEscape")>>),
        textNode(<<"A">>), varNode(Ny, "htmlEscape")>>,
      \* `{{^x}}{{y}}B{{/x}}{{#y}}A{{/y}}`
      <<sectionNode(Nx, TRUE, <<varNode(Ny, "htmlEscape"), textNode(<<"B">>)>>),
        sectionNode(Ny, FALSE, <<textNode(<<"A">>)>>)>>,
      \* `{{#x}}{{^y}}{{x}}{{/y}}{{/x}}`
      <<sectionNode(Nx, FALSE,
            <<sectionNode(Ny, TRUE, <<varNode(Nx, "htmlEscape")>>)>>)>> }

\* The sequences over S of length at most n
SeqsUpTo(S, n) == UNION {[1..k -> S] : k \in 0..n}

ElemValues == {IntV(0), IntV(1)}

\* The values a context binds x to
XValues ==
    {NilV, IntV(0 - 1), IntV(0), IntV(1), StrV(<< >>), StrV(<<"a">>),
     BoolV(FALSE), BoolV(TRUE), MapV(Ny :> IntV(1))}
    \cup {SliceV(es) : es \in SeqsUpTo(ElemValues, MaxListLen)}

\* The context chains handed to Render
Contexts ==
    {<< >>, <<MapV(EmptyMap)>>, <<MapV(Ny :> StrV(<<"<", "b", ">">>))>>,
     <<MapV(Nx :> IntV(1)), MapV(Ny :> IntV(0))>>}
    \cup {<<MapV(Nx :> v)>> : v \in XValues}

\* The partial map after Partial(p) for every p in S
Registered(S) == [k \in {TName(t) : t \in S} |-> CHOOSE t \in S : TName(t) = k]

Idle(ps) == [state |-> "idle", t |-> "main", c |-> << >>, err |-> NoErr, before |-> ps]

\* No call of lookup or truth is under observation
LookIdle == [state |-> "idle"]

\* The fields New() sets that the lexer and the parser read
DefaultConf ==
    [startDelim |-> <<"{", "{">>, endDelim |-> <<"}", "}">>,
     testValueSection |-> FALSE, escape |-> "htmlEscape"]

\* No call of Parse is under observation
ParseIdle == [state |-> "idle"]

\* No lexer on its own is under observation
LexIdle == [status |-> "idle"]

\* What Init fixes once the templates are configured and parsed
InitRest ==
    /\ stack = [p \in Procs |-> << >>]
    /\ out = [p \in Procs |-> << >>]
    /\ status = [p \in Procs |-> Idle(partials)]
    /\ nrenders = 0
    /\ history = << >>
    /\ log = [p \in Procs |-> << >>]
    /\ wrote = [p \in Procs |-> {}]
    /\ look = LookIdle
    /\ conf = DefaultConf
    /\ parsed = ParseIdle
    /\ lex = LexIdle

\* main, outer and inner registered as partials of one another
InitPartials ==
    /\ \E mt \in MainTrees :
          elems = [t \in {"main", "outer", "inner"} |->
                      CASE t = "main" -> mt
                        [] t = "outer" -> OuterTree
                        [] t = "inner" -> InnerTree]
    /\ \E S \in SUBSET {"main", "outer", "inner"}, o \in SUBSET {"inner"},
          i \in SUBSET {"outer"} :
          partials = [t \in {"main", "outer", "inner"} |->
                         CASE t = "main" -> Registered(S)
                           [] t = "outer" -> Registered(o)
                           [] t = "inner" -> Registered(i)]
    /\ silentMiss = [t \in {"main", "outer", "inner"} |-> TRUE]
    /\ ctxs = {<<MapV(Nx :> IntV(1))>>}

\* main with the partial outer, each with its own silent-miss setting
InitPartialMiss ==
    /\ elems = [t \in {"main", "outer"} |->
                   IF t = "main"
                   THEN <<partialNode(TName("outer")), textNode(<<"A">>)>>
                   ELSE <<varNode(Ny, "htmlEscape"), textNode(<<"B">>)>>]
    /\ partials = [t \in {"main", "outer"} |->
                      IF t = "main" THEN Registered({"outer"}) ELSE EmptyPartials]
    /\ silentMiss \in [{"main", "outer"} -> BOOLEAN]
    /\ \E c \in {<<MapV(EmptyMap)>>, <<MapV(Ny :> IntV(1))>>} : ctxs = {c}

\* one template without partials, rendered against one context chain
InitSections ==
    /\ \E mt \in SectionTrees : elems = [t \in {"main"} |-> mt]
    /\ partials = [t \in {"main"} |-> EmptyPartials]
    /\ silentMiss \in [{"main"} -> BOOLEAN]
    /\ \E c \in Contexts : ctxs = {c}

Init ==
    /\ procs = {1}
    /\ \/ InitPartials
       \/ InitPartialMiss
       \/ InitSections
    /\ InitRest

Spec == Init /\ [][Next]_vars

\* A goroutine that has entered Render keeps running until Render returns.
Step(p) ==
    \/ CallLeaf(p)
    \/ CallSection(p)
    \/ CallPartial(p)
    \/ PartialCopy(p)
    \/ PartialRender(p)
    \/ Return(p)

\* One goroutine renders main, outer and inner, registered as partials of one
\* another, one Render call after the other.
InitSeqPartials ==
    /\ procs = {1}
    /\ InitPartials
    /\ InitRest

FairPartials == InitSeqPartials /\ [][Next]_vars /\ WF_vars(Step(1))

\* Two goroutines render the templates of TestPartialsCannotCycle at once.
InitConc ==
    /\ procs = {1, 2}
    /\ \E mt \in {CycleMain, <<sectionNode(Nx, FALSE, CycleMain)>>} :
          elems = [t \in {"main", "outer", "inner"} |->
                      CASE t = "main" -> mt
                        [] t = "outer" -> OuterTree
                        [] t = "inner" -> InnerTree]
    /\ partials = [t \in {"main", "outer", "inner"} |->
                      IF t = "main" THEN Registered({"outer", "inner"})
                      ELSE EmptyPartials]
    /\ silentMiss = [t \in {"main", "outer", "inner"} |-> TRUE]
    /\ ctxs = {<<MapV(Nx :> IntV(1))>>}
    /\ InitRest

SpecConc == InitConc /\ [][Next]_vars

(***************************************************************************)
(* Calls of lookup and truth on their own.                                 *)
(***************************************************************************)
Nt == <<"t">>
Nm == <<"m">>
Nn == <<"n">>
Nu == <<"u">>
Nf == <<"f">>
Np == <<"p">>
\* The package path of an unexported field
Pkg == <<"p", "k", "g">>

\* The names looked up
LookupNames ==
    {Nx, Ny, Nt, Nm, Nn, Nu, Nf, Np, Ndot, <<"x", ".", "y">>, <<"x", ".", "0">>,
     <<"0">>, <<"1">>, <<"2">>, <<"-", "1">>, <<"+", "1">>, <<"0", "1">>, <<"-", "0">>,
     <<"a">>, << >>}

\* struct { x int; y string `mustache:"t"`; u int `mustache:"f"`; p *string }
\* with the methods m() and n(int), the field u unexported
StructA ==
    StructV(<<Field(Nx, << >>, << >>, IntV(0)),
              Field(Ny, << >>, Nt, StrV(<<"a">>)),
              Field(Nu, Pkg, Nf, IntV(1)),
              Field(Np, << >>, << >>, PtrV(NilV))>>,
            (Nm :> Method(0, IntV(1))) @@ (Nn :> Method(1, IntV(1))))

\* struct { x map; m int `mustache:"y"`; n int `mustache:"t"` } with the
\* methods t() and y()
StructB ==
    StructV(<<Field(Nx, << >>, << >>, MapV(Ny :> IntV(1))),
              Field(Nm, << >>, Ny, IntV(1)),
              Field(Nn, << >>, Nt, IntV(0 - 1))>>,
            (Nt :> Method(0, StrV(<<"a">>))) @@ (Ny :> Method(0, IntV(0))))

\* The contexts of the chains handed to lookup
LookupContexts ==
    {MapV(Nx :> IntV(0)),
     MapV((Nx :> IntV(1)) @@ (Ny :> StrV(<<"a">>))),
     MapV((Nx :> MapV(EmptyMap)) @@ (Ny :> IntV(1))),
     MapV(Nx :> MapV(Ny :> IntV(1))),
     MapV((Ny :> IntV(1)) @@ (<<"1">> :> StrV(<<"a">>))),
     MapV(Nx :> SliceV(<<IntV(1), IntV(0)>>)),
     MapV(Nx :> NilV),
     SliceV(<<IntV(1), IntV(0)>>),
     SliceV(<< >>),
     IntV(1),
     StrV(<<"a">>),
     StructA,
     StructB}

\* The values handed to truth
TruthValues ==
    {NilV, IntV(0 - 1), IntV(0), IntV(1), UintV(0), UintV(1),
     FloatV(0 - 5), FloatV(0), FloatV(5), StrV(<< >>), StrV(<<"a">>),
     BoolV(FALSE), BoolV(TRUE), SliceV(<< >>), SliceV(<<IntV(0)>>),
     PtrV(NilV), PtrV(StrV(<<"a">>)), PtrV(StrV(<< >>)), PtrV(IntV(0)),
     PtrV(PtrV(IntV(1))), PtrV(PtrV(NilV))}

\* The Render side of the state when only lookup and truth are called
RenderIdle ==
    /\ procs = {}
    /\ elems = << >>
    /\ partials = << >>
    /\ silentMiss = << >>
    /\ ctxs = {}
    /\ stack = [p \in Procs |-> << >>]
    /\ out = [p \in Procs |-> << >>]
    /\ status = [p \in Procs |-> Idle(partials)]
    /\ nrenders = 0
    /\ history = << >>
    /\ log = [p \in Procs |-> << >>]
    /\ wrote = [p \in Procs |-> {}]
    /\ conf = DefaultConf
    /\ parsed = ParseIdle

rvars == <<elems, partials, silentMiss, ctxs, procs, stack, out, status,
           nrenders, history, log, wrote, conf, parsed, lex>>

\* The caller has the arguments of one call of lookup or of truth at hand
InitLookup ==
    /\ RenderIdle
    /\ lex = LexIdle
    /\ \/ \E name \in LookupNames :
            \E chain \in UNION {[1..k -> LookupContexts] : k \in 0..MaxChain} :
                look = [state |-> "ready", op |-> "lookup", name |-> name,
                        chain |-> chain]
       \/ \E v \in TruthValues :
            look = [state |-> "ready", op |-> "truth", val |-> v]

\* value, ok := lookup(name, context...)
LookupCall ==
    /\ look.state = "ready"
    /\ look.op = "lookup"
    /\ look' = [look EXCEPT !.state = "done"]
                  @@ [res |-> lookup(look.name, look.chain)]
    /\ UNCHANGED rvars

\* truth(reflect.ValueOf(v))
TruthCall ==
    /\ look.state = "ready"
    /\ look.op = "truth"
    /\ look' = [look EXCEPT !.state = "done"] @@ [res |-> truth(look.val)]
    /\ UNCHANGED rvars

NextLookup == LookupCall \/ TruthCall

SpecLookup == InitLookup /\ [][NextLookup]_vars

\* The call of lookup under observation has returned
Looked == look.state = "done" /\ look.op = "lookup" /\ ~look.res.panic

\* The name has no dot in it and is not empty
Plain(name) == name # << >> /\ \A i \in 1..Len(name) : name[i] # "."

\* The index of the first context of the chain in which the name is found,
\* 0 if there is none
FirstMatch(name, chain) ==
    LET hits == {i \in 1..Len(chain) : lookupIn(name, chain[i]).found}
    IN  IF hits = {} THEN 0 ELSE CHOOSE i \in hits : \A j \in hits : i <= j

(***************************************************************************)
(* The lexer (lex.go).  The input is a sequence of bytes; pos and start are *)
(* byte offsets, 0 being the start of the input.  A byte below 0x80 is the *)
(* one-character string of its rune; the bytes 0xC2, 0xAB and 0xBB are     *)
(* written "C2", "AB" and "BB": 0xC2 0xAB encodes U+00AB and 0xC2 0xBB     *)
(* encodes U+00BB, the two guillemets.                                     *)
(***************************************************************************)
\* tokens: make(chan token, 2)
ChanCap == 2

\* What next and peek return at the end of the input
eof == "eof"

token(typ, val, line, col) == [typ |-> typ, val |-> val, line |-> line, col |-> col]

\* strings.HasPrefix(input[pos:], d)
HasPrefixAt(input, pos, d) ==
    pos + Len(d) <= Len(input) /\ Slice(input, pos + 1, pos + Len(d)) = d

\* strings.Index(input[pos:], d), -1 when d does not occur
IndexAt(input, pos, d) ==
    LET First(hits) == IF hits = {} THEN 0 - 1 ELSE CHOOSE i \in hits : \A j \in hits : i <= j
    IN  First({i \in 0..(Len(input) - pos) : HasPrefixAt(input, pos + i, d)})

\* whitespace(r)
whitespace(r) == r \in {" ", "\t", "\n", "\r"}

\* newLexer(input, left, right, testValueSection).  blocked: a send waits on
\* the full channel; panicked: a slice expression was out of range
newLexer(input, left, right, testValueSection) ==
    [input |-> input, leftDelim |-> left, rightDelim |-> right, state |-> "stateText",
     pos |-> 0, start |-> 0, width |-> 0, tokens |-> << >>,
     useTestValueSection |-> testValueSection, blocked |-> FALSE, panicked |-> FALSE]

\* The one element of a set.  The(\{e : x \in \{v\}\}) is e with x standing
\* for the value v, worked out once
The(S) == CHOOSE x \in S : TRUE

\* utf8.DecodeRuneInString(input[pos:]) with pos < len(input): a rune of two
\* bytes, of one byte, or utf8.RuneError of width 1 for a byte that starts
\* no encoding
DecodeRune(input, pos) ==
    CASE input[pos + 1] = "C2" /\ pos + 2 <= Len(input) /\ input[pos + 2] = "AB" ->
            [r |-> "U+00AB", width |-> 2]
      [] input[pos + 1] = "C2" /\ pos + 2 <= Len(input) /\ input[pos + 2] = "BB" ->
            [r |-> "U+00BB", width |-> 2]
      [] input[pos + 1] \in {"C2", "AB", "BB"} -> [r |-> "U+FFFD", width |-> 1]
      [] OTHER -> [r |-> input[pos + 1], width |-> 1]

\* l.next(): the lexer after the rune at pos has been consumed
next(l) ==
    IF l.pos >= Len(l.input) THEN [l EXCEPT !.width = 0]
    ELSE [l EXCEPT !.pos = @ + DecodeRune(l.input, l.pos).width,
                   !.width = DecodeRune(l.input, l.pos).width]

\* l.backup()
backup(l) == [l EXCEPT !.pos = @ - l.width]

\* l.peek(): the rune at pos; it leaves the lexer backup(next(l))
peek(l) == IF l.pos >= Len(l.input) THEN eof ELSE DecodeRune(l.input, l.pos).r

\* l.seek(n)
seek(l, n) == [l EXCEPT !.pos = @ + n]

\* l.ignore()
ignore(l) == [l EXCEPT !.start = l.pos]

\* l.lineNum(): 1 + strings.Count(input[:pos], "\n")
lineNum(l) == 1 + Cardinality({i \in 1..l.pos : i <= Len(l.input) /\ l.input[i] = "\n"})

\* l.columnNum(): the number of bytes between the last newline and pos
columnNum(l) ==
    LET After(lfs) ==
            IF lfs # {} THEN l.pos - (CHOOSE i \in lfs : \A j \in lfs : j <= i) ELSE l.pos
    IN  After({i \in 1..l.pos : i <= Len(l.input) /\ l.input[i] = "\n"})

\* l.tokens <- t: a send on the full channel blocks for ever, the lexer
\* being run by the goroutine that receives
send(l, t) ==
    IF l.panicked THEN l
    ELSE IF l.blocked \/ Len(l.tokens) >= ChanCap
    THEN [l EXCEPT !.blocked = TRUE]
    ELSE [l EXCEPT !.tokens = Append(@, t)]

\* l.emit(t): input[start:pos] panics when pos is below start
emit(l, t) ==
    The({IF a.blocked \/ a.panicked THEN a
         ELSE IF a.pos < a.start THEN [a EXCEPT !.panicked = TRUE]
         ELSE [send(a, token(t, Slice(a.input, a.start + 1, a.pos), lineNum(a), columnNum(a)))
                  EXCEPT !.start = a.pos] : a \in {l}})

\* l.errorf(format, args...): the lexer after the error token was sent; the
\* caller returns nil as the next state
errorf(l, msg) ==
    The({send(a, token("t_error", <<msg>>, lineNum(a), columnNum(a))) : a \in {l}})

RECURSIVE SkipWhitespace(_)
SkipWhitespace(l) ==
    IF whitespace(peek(l)) THEN The({SkipWhitespace(a) : a \in {next(l)}}) ELSE l

\* l.consumeWhitespace()
consumeWhitespace(l) == ignore(SkipWhitespace(l))

\* The next state of a lexer
goto(l, state) == [l EXCEPT !.state = state]

\* stateText scans until an opening action delimiter
MutStateTextThree(l) ==
    LET Text(a) == IF a.pos > a.start THEN emit(a, "t_text") ELSE a
        At(i) == IF i >= 0
                 THEN goto(Text(seek(l, i)), "stateLeftDelim")
                 ELSE goto(emit(emit(Text([l EXCEPT !.pos = Len(l.input)]), "t_eof"),
                                "t_eof"), "nil")
    IN  At(IndexAt(l.input, l.pos, l.leftDelim))

stateText(l) ==
    LET Text(a) == IF a.pos > a.start THEN emit(a, "t_text") ELSE a
        At(i) == IF i >= 0
                 THEN goto(Text(seek(l, i)), "stateLeftDelim")
                 ELSE goto(emit(Text([l EXCEPT !.pos = Len(l.input)]), "t_eof"), "nil")
    IN  At(IndexAt(l.input, l.pos, l.leftDelim))

\* stateLeftDelim scans the left delimiter, which is known to be present
stateLeftDelim(l) ==
    LET Past(a) == IF peek(a) = "="
                   THEN goto(next(a), "stateSetDelim")
                   ELSE goto(emit(a, "t_left_delim"), "stateTag")
    IN  Past(seek(l, Len(l.leftDelim)))

\* stateRightDelim scans the right delimiter, which is known to be present
stateRightDelim(l) ==
    goto(emit(seek(l, Len(l.rightDelim)), "t_right_delim"), "stateText")

\* The token type stateTag emits for a marker rune
Marker ==
    ("#" :> "t_section_start") @@ ("^" :> "t_section_inverse")
      @@ ("~" :> "t_section_function") @@ ("/" :> "t_section_end")
      @@ ("&" :> "t_raw_alt") @@ (">" :> "t_partial") @@ ("{" :> "t_raw_start")

TestValueWord == <<"#", "t", "e", "s", "t", "_", "v", "a", "l", "u", "e">>

\* stateTag scans the elements inside action delimiters
stateTag(l) ==
    IF HasPrefixAt(l.input, l.pos, <<"}">> \o l.rightDelim)
    THEN goto(emit(seek(l, 1), "t_raw_end"), "stateRightDelim")
    ELSE IF HasPrefixAt(l.input, l.pos, l.rightDelim)
    THEN goto(l, "stateRightDelim")
    ELSE IF l.useTestValueSection /\ HasPrefixAt(l.input, l.pos, TestValueWord)
    THEN goto(l, "stateTest")
    ELSE LET Rune(r, a) ==
                 CASE r = eof \/ r = "\n" -> goto(errorf(a, "unclosed action"), "nil")
                   [] r # "\n" /\ whitespace(r) -> goto(ignore(a), "stateTag")
                   [] r = "!" -> goto(emit(a, "t_comment"), "stateComment")
                   [] r \in DOMAIN Marker -> goto(emit(a, Marker[r]), "stateTag")
                   [] OTHER -> goto(backup(a), "stateIdentTag")
         IN  Rune(peek(l), next(l))

RECURSIVE Backups(_, _)
\* for whitespaceCount > 0 { whitespaceCount -= 1; l.backup() }
Backups(l, n) == IF n > 0 THEN Backups(backup(l), n - 1) ELSE l

RECURSIVE IdentScan(_, _)
\* The loop of stateIdentWithMode: n is whitespaceCount.  The backups follow
\* the peek of the rune the right delimiter starts with
IdentScan(l, n) ==
    LET Rune(r) ==
            CASE r = eof -> [l |-> errorf(l, "unclosed tag"), ok |-> FALSE]
              [] r # eof /\ ~whitespace(r) /\ ~HasPrefixAt(l.input, l.pos, l.rightDelim) ->
                    The({IdentScan(a, 0) : a \in {next(l)}})
              [] r # eof /\ whitespace(r) -> The({IdentScan(a, n + 1) : a \in {next(l)}})
              [] OTHER -> [l |-> emit(Backups(backup(next(l)), n), "t_ident"), ok |-> TRUE]
    IN  Rune(peek(l))

\* stateIdentWithMode(exitState) scans an identifier
stateIdentWithMode(l, exitState) ==
    LET Scanned(r) == goto(r.l, IF r.ok THEN exitState ELSE "nil")
    IN  Scanned(IdentScan(consumeWhitespace(l), 0))

\* stateComment scans a comment
stateComment(l) ==
    LET At(i) == IF i < 0 THEN goto(errorf(l, "unclosed tag"), "nil")
                 ELSE goto(emit(seek(l, i), "t_text"), "stateRightDelim")
    IN  At(IndexAt(l.input, l.pos, l.rightDelim))

RECURSIVE Split(_)
\* strings.Split(s, " ")
Split(s) ==
    LET At(i) == <<Slice(s, 1, i - 1)>> \o The({Split(r) : r \in {Slice(s, i + 1, Len(s))}})
    IN  IF \E i \in 1..Len(s) : s[i] = " "
        THEN At(CHOOSE k \in 1..Len(s) : s[k] = " " /\ \A j \in 1..(k - 1) : s[j] # " ")
        ELSE <<s>>

\* stateSetDelim scans a set delimiter tag and replaces the delimiters of
\* the lexer: leftFn takes the first non-empty part, rightFn the second
MutStateSetDelimKeep(l) ==
    LET end == <<"=">> \o l.rightDelim
        Set(delims) ==
            IF Len(delims) < 2
            THEN errorf(l, "set delimiters should be separated by a space")
            ELSE l
        At(i) ==
            IF i < 0 THEN goto(errorf(l, "unclosed tag"), "nil")
            ELSE goto(emit(ignore(seek(Set(Split(Slice(l.input, l.pos + 1, l.pos + i))),
                                       i + Len(end))), "t_set_delim"), "stateText")
    IN  At(IndexAt(l.input, l.pos, end))

stateSetDelim(l) ==
    LET end == <<"=">> \o l.rightDelim
        Right(b, parts) == IF Len(parts) >= 2 THEN [b EXCEPT !.rightDelim = parts[2]] ELSE b
        Left(a, parts) ==
            Right(IF Len(parts) >= 1 THEN [a EXCEPT !.leftDelim = parts[1]] ELSE a, parts)
        Set(delims) ==
            Left(IF Len(delims) < 2
                 THEN errorf(l, "set delimiters should be separated by a space")
                 ELSE l,
                 SelectSeq(delims, LAMBDA d : d # << >>))
        At(i) ==
            IF i < 0 THEN goto(errorf(l, "unclosed tag"), "nil")
            ELSE goto(emit(ignore(seek(Set(Split(Slice(l.input, l.pos + 1, l.pos + i))),
                                       i + Len(end))), "t_set_delim"), "stateText")
    IN  At(IndexAt(l.input, l.pos, end))

\* stateTest scans the # of a test_value section
stateTest(l) == goto(emit(next(l), "t_test_value"), "stateTestSentinel")

stateTestSentinel(l) ==
    LET After(a) == IF HasPrefixAt(a.input, a.pos, a.leftDelim)
                    THEN goto(a, "stateTestIdentLeftDelim")
                    ELSE goto(errorf(a, "Missing test_value identifier"), "nil")
    IN  After(consumeWhitespace(emit(seek(l, Len(TestValueWord) - 1), "t_ident")))

stateTestIdentLeftDelim(l) ==
    goto(emit(seek(l, Len(l.leftDelim)), "t_left_delim"), "stateIdentTest")

stateTestIdentRightDelim(l) ==
    goto(emit(seek(l, Len(l.rightDelim)), "t_right_delim"), "stateTestValue")

RECURSIVE SkipToQuote(_)
SkipToQuote(l) ==
    IF peek(l) # "\"" /\ peek(l) # eof THEN The({SkipToQuote(a) : a \in {next(l)}}) ELSE l

stateTestValue(l) ==
    LET Value(b) ==
            IF peek(b) # "\""
            THEN goto(errorf(b, "failed to find close \" for test_value value token"), "nil")
            ELSE goto(ignore(next(emit(b, "t_text"))), "stateTag")
        Quote(a) ==
            IF peek(a) # "\""
            THEN goto(errorf(next(a), "invalid test_value value token"), "nil")
            ELSE Value(SkipToQuote(ignore(next(a))))
    IN  Quote(consumeWhitespace(l))

\* l.state(l): one run of the state function the lexer is in
RunState(l) ==
    CASE l.state = "stateText" -> stateText(l)
      [] l.state = "stateLeftDelim" -> stateLeftDelim(l)
      [] l.state = "stateRightDelim" -> stateRightDelim(l)
      [] l.state = "stateTag" -> stateTag(l)
      [] l.state = "stateIdentTag" -> stateIdentWithMode(l, "stateTag")
      [] l.state = "stateIdentTest" -> stateIdentWithMode(l, "stateTestIdentRightDelim")
      [] l.state = "stateComment" -> stateComment(l)
      [] l.state = "stateSetDelim" -> stateSetDelim(l)
      [] l.state = "stateTest" -> stateTest(l)
      [] l.state = "stateTestSentinel" -> stateTestSentinel(l)
      [] l.state = "stateTestIdentLeftDelim" -> stateTestIdentLeftDelim(l)
      [] l.state = "stateTestIdentRightDelim" -> stateTestIdentRightDelim(l)
      [] l.state = "stateTestValue" -> stateTestValue(l)

\* Where a call of l.token() ends when it does not return a token
NoToken(l, how) == [tok |-> token("none", << >>, 0, 0), l |-> l, how |-> how]

RECURSIVE lexerToken(_)
\* l.token(): the next token, and the lexer after the call.  A call made
\* when the channel is empty and the state is nil calls a nil function: it
\* panics.  A state function blocked on the full channel never returns.
lexerToken(l) ==
    IF l.tokens # << >>
    THEN [tok |-> Head(l.tokens), l |-> [l EXCEPT !.tokens = Tail(@)], how |-> "token"]
    ELSE IF l.state = "nil" THEN NoToken(l, "panic")
    ELSE LET Ran(a) == CASE a.panicked -> NoToken(a, "panic")
                         [] a.blocked -> NoToken(a, "deadlock")
                         [] OTHER -> lexerToken(a)
         IN  Ran(RunState(l))

(***************************************************************************)
(* A lexer on its own: its client calls l.token() again and again.  Each   *)
(* step is one turn of the loop of l.token().                              *)
(***************************************************************************)
\* The delimiters the lexer is created with: the default, one byte each, and
\* the guillemets, two bytes each
DelimPairs ==
    {[left |-> <<"{", "{">>, right |-> <<"}", "}">>],
     [left |-> <<"[">>, right |-> <<"]">>],
     [left |-> <<"C2", "AB">>, right |-> <<"C2", "BB">>]}

\* What stands between the delimiters of a tag that names a b
TagBodies ==
    {<<"a", " ", "b">>, <<" ", "a", " ", "b">>, <<"a", " ", "b", " ">>,
     <<" ", "a", " ", "b", " ", " ">>, <<"\t", "a", " ", "b", "\t">>}

\* The inputs over the delimiters L and R: text, a tag around each body, tags
\* that the input ends in, sections, comments, raw tags, set delimiter tags
LexInputsOver(L, R) ==
    {L \o body \o R : body \in TagBodies}
    \cup {L \o body : body \in TagBodies}
    \cup {<< >>, <<"x">>, L,
          <<"x">> \o L \o <<"a">> \o R \o <<"y">>,
          L \o <<"#", "a">> \o R \o <<"x">> \o L \o <<"/", "a">> \o R,
          L \o <<"!", "c">> \o R \o L \o <<"{", "a", "}">> \o R,
          L \o <<"&", "a">> \o R \o L \o <<">", "a">> \o R,
          L \o <<"=", "a", "=">> \o R \o <<"z">>,
          L \o <<"=", "|", " ", "|", "=">> \o R \o <<"|", "a", "|">>,
          L \o <<"=", "a">>,
          L \o <<"#", "t", "e", "s", "t", "_", "v", "a", "l", "u", "e", " ">> \o L \o <<"a">> \o R
            \o <<" ", "\"", "v", "\"">> \o R \o <<"x">>,
          L \o <<"#", "t", "e", "s", "t", "_", "v", "a", "l", "u", "e", " ", "a">> \o R,
          L \o <<"#", "t", "e", "s", "t", "_", "v", "a", "l", "u", "e", " ">> \o L \o <<"a">> \o R \o <<"v">> \o R}

\* What the rest of the model has when only a lexer is under observation
lvars == <<elems, partials, silentMiss, ctxs, procs, stack, out, status,
           nrenders, history, log, wrote, conf, parsed, look>>

\* l := newLexer(input, left, right, testValueSection)
InitLex ==
    /\ RenderIdle
    /\ look = LookIdle
    /\ \E d \in DelimPairs, tv \in BOOLEAN :
          \E input \in LexInputsOver(d.left, d.right) :
             lex = [status |-> "pulling",
                    l |-> newLexer(input, d.left, d.right, tv),
                    left |-> d.left, right |-> d.right,
                    stream |-> << >>, over |-> FALSE]

\* case token := <-l.tokens: return token.  The client keeps the first
\* MaxTokens tokens; over: it has received t_eof or t_error
LexReceive ==
    /\ lex.status = "pulling"
    /\ lex.l.tokens # << >>
    /\ lex' = [lex EXCEPT !.l.tokens = Tail(@),
                          !.stream = IF Len(@) < MaxTokens
                                     THEN Append(@, Head(lex.l.tokens)) ELSE @,
                          !.over = @ \/ Head(lex.l.tokens).typ \in {"t_eof", "t_error"}]
    /\ UNCHANGED lvars

\* default: l.state = l.state(l), the state function returning, blocking on
\* a send or panicking
LexRun ==
    /\ lex.status = "pulling"
    /\ lex.l.tokens = << >>
    /\ lex.l.state # "nil"
    /\ LET Ran(a) == [lex EXCEPT !.l = a,
                                 !.status = CASE a.panicked -> "panic"
                                              [] a.blocked -> "deadlock"
                                              [] OTHER -> "pulling"]
       IN  lex' = Ran(RunState(lex.l))
    /\ UNCHANGED lvars

\* default: l.state = l.state(l) where l.state is nil
LexNil ==
    /\ lex.status = "pulling"
    /\ lex.l.tokens = << >>
    /\ lex.l.state = "nil"
    /\ lex' = [lex EXCEPT !.status = "panic"]
    /\ UNCHANGED lvars

NextLex == LexReceive \/ LexRun \/ LexNil

SpecLex == InitLex /\ [][NextLex]_vars

\* The goroutine that calls l.token() is scheduled again and again
SpecLexFair == SpecLex /\ WF_vars(NextLex)

(***************************************************************************)
(* The parser (parse.go).  A parser is a record; every function returns    *)
(* the parser it leaves behind next to its results.  how is "ok" until a   *)
(* call panics or blocks for ever; what such a call is said to return      *)
(* below is never looked at by the program.                                *)
(***************************************************************************)
\* The nodes the renderer has no use for here
commentNode(text) == [type |-> "comment", text |-> text]
delimNode == [type |-> "delim"]
testNode(testIdent, testVal, es) ==
    [type |-> "test", testIdent |-> testIdent, testVal |-> testVal, elems |-> es]

\* newParser(l, escape).  got lists the tokens the lexer has handed over,
\* late says that l.token() was called after the lexer handed an error token
newParser(l, escape) ==
    [lexer |-> l, hasLexer |-> TRUE, buf |-> << >>, escape |-> escape, how |-> "ok",
     got |-> << >>, late |-> FALSE]

\* subParser(b, escape): a parser without a lexer, reading b and then EOF
subParser(b, escape) ==
    [lexer |-> newLexer(<< >>, << >>, << >>, FALSE), hasLexer |-> FALSE,
     buf |-> Append(b, token("t_eof", << >>, 0, 0)), escape |-> escape, how |-> "ok",
     got |-> << >>, late |-> FALSE]

\* p.read(): the next token, from the buffer or else from the lexer
read(p) ==
    IF p.how # "ok" THEN [tok |-> token("none", << >>, 0, 0), p |-> p]
    ELSE IF p.buf # << >> THEN [tok |-> Head(p.buf), p |-> [p EXCEPT !.buf = Tail(@)]]
    ELSE IF ~p.hasLexer
    THEN [tok |-> token("none", << >>, 0, 0), p |-> [p EXCEPT !.how = "panic"]]
    ELSE The({[tok |-> r.tok,
               p |-> [p EXCEPT !.lexer = r.l,
                               !.late = @ \/ \E i \in 1..Len(p.got) : p.got[i].typ = "t_error",
                               !.got = IF r.how = "token" THEN Append(@, r.tok) ELSE @,
                               !.how = IF r.how = "token" THEN @ ELSE r.how]] :
              r \in {lexerToken(p.lexer)}})

\* fmt.Errorf("token %q not found", t)
NotFoundErr(typ) == [kind |-> "notfound", typ |-> typ]

\* p.errorf(t, format, v...): "<line>:<col> syntax error: <message>"
SyntaxErr(t, format, arg) ==
    [kind |-> "syntax", line |-> t.line, col |-> t.col, format |-> format, arg |-> arg]

\* token.String(), and a string handed to the format as it is
TokenString(t) == [typ |-> t.typ, val |-> t.val]
Verbatim(x) == [typ |-> "string", val |-> x]

Unexpected(t, shown) == SyntaxErr(t, "unexpected token %s", TokenString(shown))

RECURSIVE readt(_, _, _)
\* p.readt(t): the tokens up to the first one of type t
MutReadtPositioned(p, typ, tokens) ==
    The({CASE r.p.how # "ok" ->
                [toks |-> Append(tokens, r.tok), err |-> NotFoundErr(typ), p |-> r.p]
           [] r.tok.typ = "t_eof" ->
                [toks |-> Append(tokens, r.tok),
                 err |-> SyntaxErr(r.tok, "token %q not found", Verbatim(<<typ>>)),
                 p |-> r.p]
           [] r.tok.typ = typ -> [toks |-> Append(tokens, r.tok), err |-> NoErr, p |-> r.p]
           [] OTHER -> readt(r.p, typ, Append(tokens, r.tok)) :
         r \in {read(p)}})

readt(p, typ, tokens) ==
    The({CASE r.p.how # "ok" ->
                [toks |-> Append(tokens, r.tok), err |-> NotFoundErr(typ), p |-> r.p]
           [] r.tok.typ = "t_eof" ->
                [toks |-> Append(tokens, r.tok), err |-> NotFoundErr(typ), p |-> r.p]
           [] r.tok.typ = typ -> [toks |-> Append(tokens, r.tok), err |-> NoErr, p |-> r.p]
           [] OTHER -> readt(r.p, typ, Append(tokens, r.tok)) :
         r \in {read(p)}})

RECURSIVE readv(_, _, _)
\* p.readv(t): the tokens up to the first one of the type and value of t;
\* read is what the last call of readt returned
readv(p, t, tokens) ==
    The({IF r.err # NoErr
         THEN [toks |-> tokens \o r.toks, read |-> r.toks, err |-> r.err, p |-> r.p]
         ELSE IF r.toks # << >> /\ r.toks[Len(r.toks)].val = t.val
         THEN [toks |-> tokens \o r.toks, read |-> r.toks, err |-> NoErr, p |-> r.p]
         ELSE readv(r.p, t, tokens \o r.toks) :
         r \in {readt(p, t.typ, << >>)}})

\* What a function that returns (node, error) returns
Node(n, p) == [node |-> n, err |-> NoErr, p |-> p]
Fails(e, p) == [node |-> [type |-> "nil"], err |-> e, p |-> p]

\* p.parseVar(ident, escape)
parseVar(p, ident, escape) ==
    The({IF t.tok.typ # "t_right_delim" THEN Fails(Unexpected(t.tok, t.tok), t.p)
         ELSE Node(varNode(ident.val, escape), t.p) :
         t \in {read(p)}})

\* p.parseRawTag(): t, then the raw end, then the right delimiter
parseRawTag(p) ==
    The({IF t.tok.typ # "t_ident" THEN Fails(Unexpected(t.tok, t.tok), t.p)
         ELSE The({IF n1.tok.typ # "t_raw_end" THEN Fails(Unexpected(t.tok, t.tok), n1.p)
                   ELSE The({IF n2.tok.typ # "t_right_delim"
                             THEN Fails(Unexpected(t.tok, t.tok), n2.p)
                             ELSE Node(varNode(t.tok.val, "noEscape"), n2.p) :
                             n2 \in {read(n1.p)}}) :
                   n1 \in {read(t.p)}}) :
         t \in {read(p)}})

RECURSIVE parseComment(_, _)
\* p.parseComment(): comment is the text gathered so far.  The error token's
\* value is the format; no message of the lexer holds a verb
parseComment(p, comment) ==
    The({CASE t.p.how # "ok" -> Fails(Unexpected(t.tok, t.tok), t.p)
           [] t.tok.typ = "t_eof" -> Fails(Unexpected(t.tok, t.tok), t.p)
           [] t.tok.typ = "t_error" -> Fails(SyntaxErr(t.tok, "%s", Verbatim(t.tok.val)), t.p)
           [] t.tok.typ = "t_right_delim" -> Node(commentNode(comment), t.p)
           [] OTHER -> parseComment(t.p, comment \o t.tok.val) :
         t \in {read(p)}})

\* p.parsePartial(): t, then the right delimiter
parsePartial(p) ==
    The({IF t.tok.typ # "t_ident" THEN Fails(Unexpected(t.tok, t.tok), t.p)
         ELSE The({IF n1.tok.typ # "t_right_delim"
                   THEN Fails(Unexpected(t.tok, t.tok), n1.p)
                   ELSE Node(partialNode(t.tok.val), n1.p) :
                   n1 \in {read(t.p)}}) :
         t \in {read(p)}})

\* The stack count of parseSectionInternal after readv returned read
Stacked(nest, read1) ==
    CASE Len(read1) > 1
           /\ read1[Len(read1) - 1].typ \in {"t_section_start", "t_test_value",
                                             "t_section_inverse"} -> nest + 1
      [] Len(read1) > 1 /\ read1[Len(read1) - 1].typ = "t_section_end" -> nest - 1
      [] OTHER -> nest

RECURSIVE SectionBody(_, _, _, _)
MutSectionBodyFirstClose(p, t, tokens, nest) ==
    The({[toks |-> tokens \o r.toks, err |-> r.err, p |-> r.p] :
         r \in {readv(p, t, << >>)}})

\* The loop of parseSectionInternal: the tokens of the section's body up to
\* and with the close tag's identifier that brings the stack count, nest, to 0
SectionBody(p, t, tokens, nest) ==
    The({IF r.err # NoErr THEN [toks |-> tokens \o r.toks, err |-> r.err, p |-> r.p]
         ELSE IF Stacked(nest, r.read) = 0
         THEN [toks |-> tokens \o r.toks, err |-> NoErr, p |-> r.p]
         ELSE SectionBody(r.p, t, tokens \o r.toks, Stacked(nest, r.read)) :
         r \in {readv(p, t, << >>)}})

RECURSIVE parse(_, _)

\* p.parseSectionInternal(t): the nodes between the tag of t and its close.
\* sub is what the parse of the body's tokens returns
parseSectionInternal(p, t) ==
    The({IF next1.tok.typ # "t_right_delim"
         THEN [nodes |-> << >>, err |-> Unexpected(next1.tok, next1.tok), p |-> next1.p]
         ELSE The({IF body.err # NoErr
                   THEN [nodes |-> << >>, err |-> body.err, p |-> body.p]
                   ELSE IF Len(body.toks) < 3
                   THEN [nodes |-> << >>, err |-> NoErr,
                         p |-> [body.p EXCEPT !.how = "panic"]]
                   ELSE The({IF sub.p.how # "ok"
                             THEN [nodes |-> << >>, err |-> NoErr,
                                   p |-> [body.p EXCEPT !.how = sub.p.how]]
                             ELSE IF sub.err # NoErr
                             THEN [nodes |-> << >>, err |-> sub.err, p |-> body.p]
                             ELSE [nodes |-> sub.nodes, err |-> NoErr, p |-> body.p] :
                             sub \in {parse(subParser(SubSeq(body.toks, 1,
                                                             Len(body.toks) - 3),
                                                      p.escape), << >>)}}) :
                   body \in {SectionBody(next1.p, t, << >>, 1)}}) :
         next1 \in {read(p)}})

\* p.parseSection(inverse)
parseSection(p, inverse) ==
    The({IF t.tok.typ # "t_ident" THEN Fails(Unexpected(t.tok, t.tok), t.p)
         ELSE The({IF r.err # NoErr THEN Fails(r.err, r.p)
                   ELSE Node(sectionNode(t.tok.val, inverse, r.nodes), r.p) :
                   r \in {parseSectionInternal(t.p, t.tok)}}) :
         t \in {read(p)}})

\* The end of parseTest, once t, the left delimiter, i and the right
\* delimiter have been read: the value v and the body
parseTestValue(p, t, i) ==
    The({IF v.tok.typ # "t_text" THEN Fails(Unexpected(v.tok, v.tok), v.p)
         ELSE The({IF r.err # NoErr THEN Fails(r.err, r.p)
                   ELSE Node(testNode(i.val, v.tok.val, r.nodes), r.p) :
                   r \in {parseSectionInternal(v.p, t)}}) :
         v \in {read(p)}})

\* p.parseTest()
parseTest(p) ==
    The({IF t.tok.typ # "t_ident" THEN Fails(Unexpected(t.tok, t.tok), t.p)
         ELSE The({IF n1.tok.typ # "t_left_delim" THEN Fails(Unexpected(n1.tok, n1.tok), n1.p)
                   ELSE The({IF i.tok.typ # "t_ident"
                             THEN Fails(Unexpected(i.tok, i.tok), i.p)
                             ELSE The({IF n2.tok.typ # "t_right_delim"
                                       THEN Fails(Unexpected(n2.tok, n2.tok), n2.p)
                                       ELSE parseTestValue(n2.p, t.tok, i.tok) :
                                       n2 \in {read(i.p)}}) :
                             i \in {read(n1.p)}}) :
                   n1 \in {read(t.p)}}) :
         t \in {read(p)}})

\* p.parseTag(), after a left delimiter
MutParseTagAltDefault(p) ==
    The({CASE t.tok.typ = "t_ident" -> parseVar(t.p, t.tok, p.escape)
           [] t.tok.typ = "t_raw_start" -> parseRawTag(t.p)
           [] t.tok.typ = "t_raw_alt" ->
                The({parseVar(id.p, id.tok, p.escape) : id \in {read(t.p)}})
           [] t.tok.typ = "t_comment" -> parseComment(t.p, << >>)
           [] t.tok.typ = "t_section_inverse" -> parseSection(t.p, TRUE)
           [] t.tok.typ = "t_section_start" -> parseSection(t.p, FALSE)
           [] t.tok.typ = "t_test_value" -> parseTest(t.p)
           [] t.tok.typ = "t_partial" -> parsePartial(t.p)
           [] OTHER ->
                Fails(SyntaxErr(t.tok, "unreachable code %s", TokenString(t.tok)), t.p) :
         t \in {read(p)}})

parseTag(p) ==
    The({CASE t.tok.typ = "t_ident" -> parseVar(t.p, t.tok, p.escape)
           [] t.tok.typ = "t_raw_start" -> parseRawTag(t.p)
           [] t.tok.typ = "t_raw_alt" ->
                The({parseVar(id.p, id.tok, "noEscape") : id \in {read(t.p)}})
           [] t.tok.typ = "t_comment" -> parseComment(t.p, << >>)
           [] t.tok.typ = "t_section_inverse" -> parseSection(t.p, TRUE)
           [] t.tok.typ = "t_section_start" -> parseSection(t.p, FALSE)
           [] t.tok.typ = "t_test_value" -> parseTest(t.p)
           [] t.tok.typ = "t_partial" -> parsePartial(t.p)
           [] OTHER ->
                Fails(SyntaxErr(t.tok, "unreachable code %s", TokenString(t.tok)), t.p) :
         t \in {read(p)}})

\* p.parse(): nodes are the nodes gathered so far
parse(p, nodes) ==
    The({CASE t.p.how # "ok" -> [nodes |-> nodes, err |-> NoErr, p |-> t.p]
           [] t.tok.typ = "t_eof" -> [nodes |-> nodes, err |-> NoErr, p |-> t.p]
           [] t.tok.typ = "t_error" ->
                [nodes |-> << >>, err |-> SyntaxErr(t.tok, "%s", Verbatim(t.tok.val)),
                 p |-> t.p]
           [] t.tok.typ = "t_text" -> parse(t.p, Append(nodes, textNode(t.tok.val)))
           [] t.tok.typ \in {"t_left_delim", "t_raw_start"} ->
                The({IF x.err # NoErr \/ x.p.how # "ok"
                     THEN [nodes |-> nodes, err |-> x.err, p |-> x.p]
                     ELSE parse(x.p, Append(nodes, x.node)) :
                     x \in {IF t.tok.typ = "t_left_delim" THEN parseTag(t.p)
                            ELSE parseRawTag(t.p)}})
           [] t.tok.typ = "t_set_delim" -> parse(t.p, Append(nodes, delimNode))
           [] OTHER -> parse(t.p, nodes) :
         t \in {read(p)}})

(***************************************************************************)
(* Calls of Template.Parse on one template.                                *)
(***************************************************************************)
\* {{foo}: a tag closed by one brace only
SrcUnclosedTag ==
    <<"{", "{", "f", "o", "o", "}">>

\* {{&: the & marker and then the end of the input
SrcRawAltAlone ==
    <<"{", "{", "&">>

\* {{#a}}{{foo}: an open section whose body the lexer rejects
SrcErrorInSection ==
    <<"{", "{", "#", "a", "}", "}", "{", "{", "f", "o", "o", "}">>

\* {{#a}}x: a section that is never closed
SrcUnclosedSection ==
    <<"{", "{", "#", "a", "}", "}", "x">>

\* x{{/a}}: a close tag without an open section
SrcStrayEnd ==
    <<"x", "{", "{", "/", "a", "}", "}">>

\* {{#a}}{{#b}}{{/a}}{{/b}}: two sections closed in the wrong order
SrcCrossed ==
    <<"{", "{", "#", "a", "}", "}", "{", "{", "#", "b", "}", "}", "{", "{", "/", "a", "}", "}", "{", "{", "/", "b", "}", "}">>

\* {{#a}}x{{b}}{{/a}}: a closed section
SrcSection ==
    <<"{", "{", "#", "a", "}", "}", "x", "{", "{", "b", "}", "}", "{", "{", "/", "a", "}", "}">>

\* {{#a}}{{&}}{{/a}}: a section whose body ends where a tag is still open
SrcEndOfBody ==
    <<"{", "{", "#", "a", "}", "}", "{", "{", "&", "}", "}", "{", "{", "/", "a", "}", "}">>

\* x{{~f}}y{{/f}}: a function section
SrcFunction ==
    <<"x", "{", "{", "~", "f", "}", "}", "y", "{", "{", "/", "f", "}", "}">>

\* {{=a=}}z: a set delimiter tag of one part
SrcSetDelimOne ==
    <<"{", "{", "=", "a", "=", "}", "}", "z">>

\* {{=a =}}z: one part and a space
SrcSetDelimOnePadded ==
    <<"{", "{", "=", "a", " ", "=", "}", "}", "z">>

\* {{=a b c=}}z: three parts
SrcSetDelimThree ==
    <<"{", "{", "=", "a", " ", "b", " ", "c", "=", "}", "}", "z">>

\* {{=| |=}}|a|{{b}}|={{ }}=|{{c}}: the delimiters set to | and |,
\* and back
SrcSetDelim ==
    <<"{", "{", "=", "|", " ", "|", "=", "}", "}", "|", "a", "|", "{", "{", "b", "}", "}", "|", "=", "{", "{", " ", "}", "}", "=", "|", "{", "{", "c", "}", "}">>

\* Set delimiter tags whose interior is not two non-empty parts separated by
\* spaces
MalformedSetDelims == {SrcSetDelimOne, SrcSetDelimOnePadded, SrcSetDelimThree}

RECURSIVE NestSrc(_)
\* Sections named a nested d deep around x, a y after every close tag:
\* {{#a}}{{#a}}x{{/a}}y{{/a}}y for d = 2
NestSrc(d) ==
    IF d = 0 THEN <<"x">>
    ELSE <<"{", "{", "#", "a", "}", "}">> \o NestSrc(d - 1)
         \o <<"{", "{", "/", "a", "}", "}", "y">>

\* {{#a}}{{^a}}x{{/a}}y{{/a}}z: an inverted section in a section of its name
SrcNestInverse ==
    <<"{", "{", "#", "a", "}", "}", "{", "{", "^", "a", "}", "}", "x", "{", "{", "/", "a", "}", "}", "y", "{", "{", "/", "a", "}", "}", "z">>

\* {{#a}}{{a}}{{{a}}}{{&a}}{{>a}}{{/a}}z: tags that mention the name of the
\* section they are in
SrcMentions ==
    <<"{", "{", "#", "a", "}", "}", "{", "{", "a", "}", "}", "{", "{", "{", "a", "}", "}", "}", "{", "{", "&", "a", "}", "}", "{", "{", ">", "a", "}", "}", "{", "{", "/", "a", "}", "}", "z">>

\* Templates with an open tag of a section, an inverted section or a
\* test_value section that no close tag of the same name matches, or with a
\* close tag that no open tag matches
Unbalanced ==
    {SrcErrorInSection, SrcUnclosedSection, SrcStrayEnd, SrcCrossed,
     <<"{", "{", "#", "a", "}", "}">>,
     <<"{", "{", "/", "a", "}", "}">>,
     <<"{", "{", "#", "a", "}", "}", "x", "{", "{", "/", "b", "}", "}">>,
     <<"{", "{", "#", "a", "}", "}", "{", "{", "/", "a", "}", "}", "{", "{", "/", "a", "}", "}">>,
     <<"{", "{", "#", "a", "}", "}", "{", "{", "/", "b", "}", "}", "{", "{", "/", "a", "}", "}">>,
     <<"{", "{", "#", "a", "}", "}", "{", "{", "b">>,
     <<"{", "{", "#", "a", "}", "}", "{", "{", "b", "}", "}", "{", "{", "a", "}", "}">>,
     <<"{", "{", "#", "a", "}", "}", "{", "{", "^", "a", "}", "}", "{", "{", "/", "a", "}", "}">>,
     <<"{", "{", "#", "t", "e", "s", "t", "_", "v", "a", "l", "u", "e", " ", "{", "{", "a", "}", "}", " ", "\"", "b", "\"", "}", "}">>}

\* The templates handed to Parse, well formed and not
Sources ==
    Unbalanced \cup
    {NestSrc(d) : d \in 1..MaxNest} \cup MalformedSetDelims \cup
    {SrcEndOfBody, SrcUnclosedTag, SrcRawAltAlone, SrcSection, SrcFunction,
     SrcNestInverse, SrcMentions, SrcSetDelim,
     << >>,
     <<"x">>,
     <<"{", "{", "a", "}", "}">>,
     <<"x", "{", "{", "a", "}", "}", "y">>,
     <<"{", "{", "{", "a", "}", "}", "}">>,
     <<"{", "{", "&", "a", "}", "}">>,
     <<"{", "{", "!", "c", "}", "}">>,
     <<"{", "{", ">", "p", "}", "}">>,
     <<"{", "{", "^", "a", "}", "}", "x", "{", "{", "/", "a", "}", "}">>,
     <<"{", "{", "#", "a", "}", "}", "{", "{", "#", "b", "}", "}", "x", "{", "{", "/", "b", "}", "}", "{", "{", "/", "a", "}", "}">>,
     <<"{", "{", "#", "a", "}", "}", "{", "{", "#", "a", "}", "}", "x", "{", "{", "/", "a", "}", "}", "{", "{", "/", "a", "}", "}">>,
     <<"{", "{", "#", "a", "}", "}", "{", "{", "=", "a", "=", "}", "}", "{", "{", "/", "a", "}", "}">>,
     <<"{", "{">>,
     <<"{", "{", "a">>,
     <<"{", "{", "&", "}", "}">>,
     <<"{", "{", "#", "}", "}">>,
     <<"{", "{", ">", "}", "}">>,
     <<"{", "{", ">", "p">>,
     <<"{", "{", "!", "c">>,
     <<"{", "{", "{", "a", "}", "}">>,
     <<"{", "{", "#", "a", "}", "}", "{", "{", ">", "a", "}", "}", "{", "{", "/", "a", "}", "}">>,
     <<"a", "\n", "{", "{", "b", "}">>,
     <<"{", "{", "#", "a", "}">>,
     <<"{", "{", "#", "t", "e", "s", "t", "_", "v", "a", "l", "u", "e", " ", "{", "{", "a", "}", "}", " ", "\"", "b", "\"", "}", "}", "x", "{", "{", "/", "t", "e", "s", "t", "_", "v", "a", "l", "u", "e", "}", "}">>,
     <<"{", "{", "#", "t", "e", "s", "t", "_", "v", "a", "l", "u", "e", " ", "a", " ", "b", "}", "}">>}

\* The error of a reader that fails
ReadErr == [kind |-> "read"]

\* What io.ReadAll(r) gives: the bytes of r or its error
Readers == {[b |-> x, err |-> NoErr] : x \in Sources} \cup {[b |-> << >>, err |-> ReadErr]}

\* t.Parse(r) up to its return: how it ends, the error it returns, the nodes
\* parse returned, and the parser's tokens
TemplateParse(t, r) ==
    IF r.err # NoErr
    THEN [how |-> "ok", err |-> r.err, nodes |-> << >>, got |-> << >>, late |-> FALSE]
    ELSE The({[how |-> x.p.how, err |-> IF x.p.how = "ok" THEN x.err ELSE NoErr,
               nodes |-> x.nodes, got |-> x.p.got, late |-> x.p.late] :
              x \in {parse(newParser(newLexer(r.b, t.startDelim, t.endDelim,
                                              t.testValueSection), t.escape), << >>)}})

\* The settings of a template that New(options...) can give to Parse
Confs ==
    {[DefaultConf EXCEPT !.testValueSection = tv, !.escape = esc] :
        tv \in BOOLEAN, esc \in {"htmlEscape", "noEscape"}}

\* t.elems once t.Parse(r) has ended as res says
MutParseElemsAlways(old, res) == res.nodes

ParseElems(old, res) ==
    IF res.how = "ok" /\ res.err = NoErr THEN res.nodes ELSE old

\* The templates parsed before the call under observation
Earlier == {<< >>, SrcSection, SrcSetDelim, <<"x", "{", "{", "a", "}", "}", "y">>}

\* A template configured by options, with the tree of an earlier Parse, that
\* nobody renders
InitParse ==
    /\ procs = {}
    /\ conf \in Confs
    /\ \E src \in Earlier :
          elems = [t \in {"main"} |->
                      ParseElems(<< >>, TemplateParse(conf, [b |-> src, err |-> NoErr]))]
    /\ partials = [t \in {"main"} |-> EmptyPartials]
    /\ silentMiss = [t \in {"main"} |-> TRUE]
    /\ ctxs = {}
    /\ stack = [p \in Procs |-> << >>]
    /\ out = [p \in Procs |-> << >>]
    /\ status = [p \in Procs |-> Idle(partials)]
    /\ nrenders = 0
    /\ history = << >>
    /\ log = [p \in Procs |-> << >>]
    /\ wrote = [p \in Procs |-> {}]
    /\ look = LookIdle
    /\ parsed = ParseIdle
    /\ lex = LexIdle

\* err := t.Parse(r), r being one of the readers rs
ParseFrom(rs) ==
    /\ parsed.state = "idle"
    /\ \E r \in rs :
          LET res == TemplateParse(conf, r)
          IN  /\ elems' = [elems EXCEPT !["main"] = ParseElems(@, res)]
              /\ parsed' = [state |-> "done", source |-> r.b, reader |-> r.err,
                            before |-> elems["main"], how |-> res.how, err |-> res.err,
                            nodes |-> res.nodes, got |-> res.got, late |-> res.late]
    /\ UNCHANGED <<partials, silentMiss, ctxs, procs, stack, out, status, nrenders,
                   history, log, wrote, look, conf, lex>>

ParseCall == ParseFrom(Readers)

NextParse == ParseCall

SpecParse == InitParse /\ [][NextParse]_vars

(***************************************************************************)
(* One template, parsed from a source and then rendered.                   *)
(***************************************************************************)
Na == <<"a">>
Nb == <<"b">>
Ns == <<"s">>
Nv == <<"v">>
Nh == <<"h">>

\* {{#test_value {{a}} "v"}}x{{b}}{{/test_value}}
SrcTest ==
    <<"{", "{", "#", "t", "e", "s", "t", "_", "v", "a", "l", "u", "e", " ", "{", "{", "a", "}", "}", " ", "\"", "v", "\"", "}", "}", "x", "{", "{", "b", "}", "}", "{", "{", "/", "t", "e", "s", "t", "_", "v", "a", "l", "u", "e", "}", "}">>

\* {{#test_value {{a}} "v"}}{{#test_value {{b}} "h"}}t{{/test_value}}y{{/test_value}}z
SrcTestNested ==
    <<"{", "{", "#", "t", "e", "s", "t", "_", "v", "a", "l", "u", "e", " ", "{", "{", "a", "}", "}", " ", "\"", "v", "\"", "}", "}", "{", "{", "#", "t", "e", "s", "t", "_", "v", "a", "l", "u", "e", " ", "{", "{", "b", "}", "}", " ", "\"", "h", "\"", "}", "}", "t", "{", "{", "/", "t", "e", "s", "t", "_", "v", "a", "l", "u", "e", "}", "}", "y", "{", "{", "/", "t", "e", "s", "t", "_", "v", "a", "l", "u", "e", "}", "}", "z">>

\* {{#test_value {{a}} "1"}}{{#b}}{{.}}{{/b}}{{/test_value}}
SrcTestSection ==
    <<"{", "{", "#", "t", "e", "s", "t", "_", "v", "a", "l", "u", "e", " ", "{", "{", "a", "}", "}", " ", "\"", "1", "\"", "}", "}", "{", "{", "#", "b", "}", "}", "{", "{", ".", "}", "}", "{", "{", "/", "b", "}", "}", "{", "{", "/", "t", "e", "s", "t", "_", "v", "a", "l", "u", "e", "}", "}">>

\* {{x}}{{{x}}}{{&x}}
SrcVars ==
    <<"{", "{", "x", "}", "}", "{", "{", "{", "x", "}", "}", "}", "{", "{", "&", "x", "}", "}">>

\* {{#s}}{{x}}{{&x}}{{/s}}
SrcVarsInSection ==
    <<"{", "{", "#", "s", "}", "}", "{", "{", "x", "}", "}", "{", "{", "&", "x", "}", "}", "{", "{", "/", "s", "}", "}">>

\* {{#test_value {{a}} "v"}}{{x}}{{{x}}}{{/test_value}}
SrcVarsInTest ==
    <<"{", "{", "#", "t", "e", "s", "t", "_", "v", "a", "l", "u", "e", " ", "{", "{", "a", "}", "}", " ", "\"", "v", "\"", "}", "}", "{", "{", "x", "}", "}", "{", "{", "{", "x", "}", "}", "}", "{", "{", "/", "t", "e", "s", "t", "_", "v", "a", "l", "u", "e", "}", "}">>

TemplateSources ==
    {SrcTest, SrcTestNested, SrcTestSection, SrcVars, SrcVarsInSection, SrcVarsInTest}

\* A string that every escape mode but none rewrites: <"&
Markup == <<"<", "\"", "&">>

\* The context chains the template is rendered against
TemplateContexts ==
    {<< >>,
     <<MapV(Na :> StrV(Nv) @@ Nb :> StrV(Nh))>>,
     <<MapV(Na :> StrV(Nv))>>,
     <<MapV(Na :> StrV(<<"v", "v">>) @@ Nb :> StrV(Nh))>>,
     <<MapV(Na :> StrV(<< >>) @@ Nb :> StrV(Nh))>>,
     <<MapV(Na :> NilV @@ Nb :> StrV(Nh))>>,
     <<MapV(Na :> IntV(1) @@ Nb :> SliceV(<<IntV(0), IntV(1)>>))>>,
     <<MapV(Nb :> StrV(Nh))>>,
     <<MapV(Na :> StrV(Nv) @@ Nx :> StrV(Markup) @@ Ns :> BoolV(TRUE))>>,
     <<MapV(Nx :> StrV(Markup) @@ Ns :> MapV(Nx :> StrV(<<"&">>)))>>}

\* New(TestValueSection(), HtmlEscape() or JsonEscape() or NoEscape(),
\* SilentMiss(silent)), not yet parsed
InitTemplate ==
    /\ procs = {1}
    /\ \E esc \in {"htmlEscape", "jsonEscape", "noEscape"} :
          conf = [DefaultConf EXCEPT !.testValueSection = TRUE, !.escape = esc]
    /\ elems = [t \in {"main"} |-> << >>]
    /\ partials = [t \in {"main"} |-> EmptyPartials]
    /\ silentMiss \in [{"main"} -> BOOLEAN]
    /\ \E c \in TemplateContexts : ctxs = {c}
    /\ stack = [p \in Procs |-> << >>]
    /\ out = [p \in Procs |-> << >>]
    /\ status = [p \in Procs |-> Idle(partials)]
    /\ nrenders = 0
    /\ history = << >>
    /\ log = [p \in Procs |-> << >>]
    /\ wrote = [p \in Procs |-> {}]
    /\ look = LookIdle
    /\ parsed = ParseIdle
    /\ lex = LexIdle

\* strings.NewReader(source): reading it gives the bytes and no error
TemplateReaders == {[b |-> x, err |-> NoErr] : x \in TemplateSources}

\* t.Parse(strings.NewReader(source))
ParseSource == ParseFrom(TemplateReaders)

\* t.Render(w, context...) once the template is parsed
RenderParsed(p) == parsed.state = "done" /\ RenderStart(p)

NextTemplate ==
    \/ ParseSource
    \/ \E p \in Procs :
          \/ RenderParsed(p)
          \/ CallLeaf(p)
          \/ CallSection(p)
          \/ CallTest(p)
          \/ Return(p)

SpecTemplate == InitTemplate /\ [][NextTemplate]_vars

(***************************************************************************)
(* What the log of a Render call shows.                                    *)
(***************************************************************************)
Calls(p) == {log[p][i] : i \in {j \in 1..Len(log[p]) : log[p][j].ev = "call"}}

\* The frames of the calls of kind k that have returned, as they returned
Returned(p, k) ==
    {log[p][i] : i \in {j \in 1..Len(log[p]) :
                            log[p][j].ev = "ret" /\ log[p][j].frame.kind = k}}

\* The name resolves to absent in the chain
Absent(name, chain) == lookup(name, chain).v = NilV

\* The partial names along the chain of nested partial calls of a stack
PartialChain(st) ==
    LET idx == {i \in 1..Len(st) : st[i].kind = "partial" /\ st[i].called}
    IN  [i \in idx |-> st[i].name]

IsDone(p) == p \in procs /\ status[p].state = "done"

\* The configuration of TestPartialsCannotCycle, main being rendered
CycleTest(p) ==
    /\ status[p].t = "main"
    /\ elems["main"] = CycleMain
    /\ "outer" \in DOMAIN elems
    /\ status[p].before["main"] = Registered({"outer", "inner"})

(***************************************************************************)
(* C1. For any registered partials, self- and mutually-referencing ones    *)
(* included, Render terminates; along any chain of nested partial calls    *)
(* each partial name occurs at most once; main -> outer -> inner -> outer  *)
(* renders exactly "I am the outer.I am the inner.".                       *)
(***************************************************************************)
C1_ChainDistinct ==
    \A p \in procs :
        LET ch == PartialChain(stack[p])
        IN  \A i, j \in DOMAIN ch : ch[i] = ch[j] => i = j

C1_CycleOutput ==
    \A p \in procs :
        IsDone(p) /\ CycleTest(p) => out[p] = OuterText \o InnerText /\ status[p].err = NoErr

C1_PartialsTerminate ==
    /\ [](C1_ChainDistinct /\ C1_CycleOutput)
    /\ (status[1].state = "running") ~> (status[1].state = "done")

\* main -> outer -> inner has been rendered and inner's {{>outer}} found no
\* partial left to render
C1_Witness ==
    /\ IsDone(1) /\ CycleTest(1)
    /\ out[1] = OuterText \o InnerText
    /\ \E e \in Calls(1) : e.node = partialNode(TName("outer")) /\ e.t = "inner"
    /\ \E e \in Returned(1, "partial") : e.frame.t = "outer" /\ e.frame.tmpl = "inner"

(***************************************************************************)
(* C2. Render is idempotent: successive Render calls of one template with  *)
(* the same context chain write the same output, whatever was rendered in  *)
(* between.                                                                *)
(***************************************************************************)
C2_Idempotent ==
    \A i, j \in 1..Len(history) :
        history[i].t = history[j].t /\ history[i].c = history[j].c
            => history[i].out = history[j].out /\ history[i].err = history[j].err

(***************************************************************************)
(* C3. Render leaves the partial map of every Template unchanged: after a  *)
(* Render call each partials field holds the entries it held before it.    *)
(***************************************************************************)
C3_PartialsUnchanged ==
    \A p \in procs : IsDone(p) => partials = status[p].before

(***************************************************************************)
(* C4. Concurrent Render calls that share a registered partial do not      *)
(* race: no two renders write the same Template's partial map, and each    *)
(* render's output is the output it produces when run alone.               *)
(***************************************************************************)
C4_NoRace ==
    /\ \A p, q \in procs :
          p # q /\ status[p].state = "running" /\ status[q].state = "running"
              => wrote[p] \cap wrote[q] = {}
    /\ \A p \in procs :
          IsDone(p) /\ status[p].t = "main" => out[p] = OuterText \o InnerText

(***************************************************************************)
(* C5. A variable tag whose name resolves to absent writes nothing; with   *)
(* silent-miss true (the default) Render returns no error; with            *)
(* silent-miss disabled Render returns an error whose message contains     *)
(* the missing name.                                                       *)
(***************************************************************************)
\* The calls of varNode.render whose name resolved to absent
VarMisses(p) == {e \in Calls(p) : e.node.type = "var" /\ Absent(e.node.name, e.c)}

\* silent-miss is disabled on every template the call was reached through
Loud(e) == \A t \in e.path : ~silentMiss[t]

TopCallCount(p) ==
    Cardinality({j \in 1..Len(log[p]) : log[p][j].ev = "call" /\ log[p][j].top})

C6_AllNodesRendered ==
    \A p \in procs :
        IsDone(p) /\ ~silentMiss[status[p].t] =>
            /\ TopCallCount(p) = Len(elems[status[p].t])
            /\ \A e \in VarMisses(p) :
                  Loud(e) => Contains(ErrorString(status[p].err), e.node.name)

(***************************************************************************)
(* C6 amended. With silent-miss disabled a lookup miss does not stop the   *)
(* section it occurs in: all children of the section are rendered for      *)
(* every element and the section returns an ErrorSlice with one error per  *)
(* failed child; but Template.render stops at the first top-level node     *)
(* that returns an error: no later top-level node is rendered and Render   *)
(* returns that node's error alone.                                        *)
(***************************************************************************)
\* The calls a section made to children that are variables resolving to absent
MissedCalls(f) ==
    {k \in 1..Len(f.calls) :
        /\ f.node.elems[f.calls[k].idx].type = "var"
        /\ Absent(f.node.elems[f.calls[k].idx].name, f.calls[k].c)}

LeafOnly(f) == \A i \in 1..Len(f.node.elems) : f.node.elems[i].type \in {"text", "var"}

C6_StopsAtTopLevel ==
    \A p \in procs :
        /\ \A e \in Returned(p, "section") :
              ~silentMiss[e.frame.t] /\ LeafOnly(e.frame) =>
                  /\ Len(e.frame.calls)
                        = Len(SectionItems(e.frame.node, e.frame.c)) * Len(e.frame.node.elems)
                  /\ IF MissedCalls(e.frame) = {} THEN e.ret = NoErr
                     ELSE /\ e.ret.kind = "slice"
                          /\ Len(e.ret.errs) = Cardinality(MissedCalls(e.frame))
                          /\ \A k \in MissedCalls(e.frame) :
                                \E i \in 1..Len(e.ret.errs) :
                                    e.ret.errs[i]
                                       = LookupErr(e.frame.node.elems[e.frame.calls[k].idx].name)
        /\ \A e \in Returned(p, "template") :
              ~silentMiss[e.frame.t] /\ e.ret # NoErr => e.frame.idx <= Len(e.frame.elems)
        /\ IsDone(p) /\ ~silentMiss[status[p].t] =>
              \A m \in VarMisses(p) :
                  m.top =>
                      /\ status[p].err = LookupErr(m.node.name)
                      /\ \E i \in 1..Len(elems[status[p].t]) :
                            /\ elems[status[p].t][i] = m.node
                            /\ TopCallCount(p) = i

\* A section has collected two misses and returned them, and Render has
\* stopped at that section, leaving the top-level nodes after it unrendered
C6_Witness ==
    /\ IsDone(1)
    /\ status[1].err # NoErr
    /\ \E e \in Returned(1, "section") : e.ret.kind = "slice" /\ Len(e.ret.errs) = 2
    /\ TopCallCount(1) < Len(elems[status[1].t])

(***************************************************************************)
(* C7 as claimed. With silent-miss disabled, rendering a section whose     *)
(* own name resolves to absent produces a reported error, as a missing     *)
(* variable name does.                                                     *)
(***************************************************************************)
\* The sections rendered whose own name resolved to absent
AbsentSections(p) ==
    {e \in Returned(p, "section") : Absent(e.frame.node.name, e.frame.c)}

C7_SectionMissReported ==
    \A p \in procs :
        IsDone(p) /\ ~silentMiss[status[p].t] /\ AbsentSections(p) # {}
            => status[p].err # NoErr

(***************************************************************************)
(* C7 amended. With silent-miss disabled, a section whose own name         *)
(* resolves to absent reports no error of its own: a non-inverted one      *)
(* renders nothing and returns nil, an inverted one returns an error only  *)
(* when one of its children does.                                          *)
(***************************************************************************)
C7_SectionMissSilent ==
    \A p \in procs :
        \A e \in AbsentSections(p) :
            ~silentMiss[e.frame.t] =>
                IF e.frame.node.inverted
                THEN LeafOnly(e.frame) /\ MissedCalls(e.frame) = {} => e.ret = NoErr
                ELSE e.frame.calls = << >> /\ e.ret = NoErr

\* With silent-miss disabled a section named by an absent name has returned nil
C7_Witness ==
    /\ IsDone(1)
    /\ ~silentMiss[status[1].t]
    /\ status[1].err = NoErr
    /\ \E e \in AbsentSections(1) :
          ~e.frame.node.inverted /\ e.frame.calls = << >> /\ e.ret = NoErr

(***************************************************************************)
(* C8. A non-inverted section renders its children once per element, in    *)
(* index order, when its name resolves to a truthy sequence, the element   *)
(* prepended to the context chain; exactly once, the value prepended,      *)
(* when the value is truthy and no sequence; not at all when the value is  *)
(* falsy or absent.                                                        *)
(***************************************************************************)
\* The calls that render each of n children once per item, item by item,
\* the item prepended to the chain c
OncePerItem(items, n, c) ==
    [k \in 1..(Len(items) * n) |->
        LET item == items[((k - 1) \div n) + 1]
        IN  [item |-> item, idx |-> ((k - 1) % n) + 1, c |-> <<item>> \o c]]

C8_SectionIteration ==
    \A p \in procs :
        \A e \in Returned(p, "section") :
            LET f == e.frame
                v == lookup(f.node.name, f.c).v
                n == Len(f.node.elems)
            IN  ~f.node.inverted =>
                    f.calls = OncePerItem(
                                  IF truth(v) /\ v.kind = "slice" THEN v.elems
                                  ELSE IF truth(v) THEN <<v>>
                                  ELSE << >>, n, f.c)

\* `{{#x}}({{.}}){{/x}}` over x = [0, 1] has rendered (0)(1)
C8_Witness ==
    /\ IsDone(1)
    /\ out[1] = <<"(", "0", ")", "(", "1", ")">>
    /\ \E e \in Returned(1, "section") :
          /\ ~e.frame.node.inverted
          /\ e.frame.look.v = SliceV(<<IntV(0), IntV(1)>>)
          /\ Len(e.frame.calls) = 6

(***************************************************************************)
(* C9. An inverted section renders its children exactly once when its      *)
(* name resolves to a falsy value or is absent (an empty sequence          *)
(* included), and renders nothing when the name resolves to a truthy       *)
(* value.                                                                  *)
(***************************************************************************)
C9_InvertedOnce ==
    \A p \in procs :
        \A e \in Returned(p, "section") :
            LET f == e.frame
                v == lookup(f.node.name, f.c).v
            IN  f.node.inverted =>
                    IF truth(v) THEN f.calls = << >>
                    ELSE [k \in 1..Len(f.calls) |-> f.calls[k].idx]
                            = [k \in 1..Len(f.node.elems) |-> k]

\* An inverted section over the empty sequence has rendered its children once
C9_Witness ==
    /\ IsDone(1)
    /\ \E e \in Returned(1, "section") :
          /\ e.frame.node.inverted
          /\ e.frame.look.v = SliceV(<< >>)
          /\ Len(e.frame.calls) = 2
          /\ Len(e.frame.node.elems) = 2

(***************************************************************************)
(* C10. The children of an inverted section receive exactly the context    *)
(* chain the section received: nothing is prepended, and `.` inside the    *)
(* section resolves to the value `.` resolves to just outside it.          *)
(***************************************************************************)
C10_InvertedChainUnmodified ==
    \A p \in procs :
        \A e \in Returned(p, "section") :
            e.frame.node.inverted =>
                \A k \in 1..Len(e.frame.calls) :
                    /\ e.frame.calls[k].c = e.frame.c
                    /\ lookup(Ndot, e.frame.calls[k].c) = lookup(Ndot, e.frame.c)


(***************************************************************************)
(* C11. A variable tag whose name resolves to a present but falsy value    *)
(* (boolean false, integer 0) still writes the formatted value; only an    *)
(* absent value writes nothing.                                            *)
(***************************************************************************)
\* The calls of varNode.render
VarCalls(p) == {e \in Calls(p) : e.node.type = "var"}

C11_FalsyStillWritten ==
    \A p \in procs :
        \A e \in VarCalls(p) :
            LET v == lookup(e.node.name, e.c).v
            IN  /\ v # NilV => e.w = print(v, e.node.escape) /\ e.err = NoErr
                /\ v = BoolV(FALSE) => e.w = <<"f", "a", "l", "s", "e">>
                /\ v = IntV(0) => e.w = <<"0">>
                /\ v = NilV => e.w = << >>

\* `{{x}}{{y}}A` over {x: false} has rendered falseA
C11_Witness ==
    /\ IsDone(1)
    /\ status[1].c = <<MapV(Nx :> BoolV(FALSE))>>
    /\ out[1] = <<"f", "a", "l", "s", "e", "A">>
    /\ \E e \in VarCalls(1) : e.node.name = Nx /\ e.w = <<"f", "a", "l", "s", "e">>


(***************************************************************************)
(* C12. lookup of a plain name scans the context chain from index 0        *)
(* (innermost) outward and returns the value of the first context in which *)
(* the name is found, even when that value is falsy; a context in which    *)
(* the name is not found, or that is no map, struct or sequence, is        *)
(* skipped; if no context matches the result is (absent, false).           *)
(***************************************************************************)
C12_PlainScan ==
    Looked /\ Plain(look.name) =>
        LET i == FirstMatch(look.name, look.chain)
        IN  IF i = 0
            THEN look.res.v = NilV /\ ~look.res.ok
            ELSE /\ look.res.v = lookupIn(look.name, look.chain[i]).v
                 /\ look.res.ok = truth(look.res.v)
                 /\ look.chain[i].kind \in {"map", "struct", "slice"}
                 /\ look.chain[i].kind = "map" =>
                        /\ look.name \in DOMAIN look.chain[i].m
                        /\ look.res.v = look.chain[i].m[look.name]
                 /\ \A j \in 1..(i - 1) :
                        look.chain[j].kind = "map" => look.name \notin DOMAIN look.chain[j].m

\* x has been looked up in [{x: 0}, {x: 1, y: "a"}] and the innermost, falsy
\* value returned
C12_Witness ==
    /\ Looked
    /\ look.name = Nx
    /\ look.chain = <<MapV(Nx :> IntV(0)), MapV((Nx :> IntV(1)) @@ (Ny :> StrV(<<"a">>)))>>
    /\ look.res.v = IntV(0)
    /\ ~look.res.ok


(***************************************************************************)
(* C13. lookup of a dotted name a.b resolves a against the full chain and  *)
(* then resolves b only against the value of a; if a is unresolved, or b   *)
(* is not found in the value of a, the result is (absent, false), even     *)
(* when an outer context could supply b or another a that contains b.      *)
(***************************************************************************)
C13_Dotted ==
    \A b \in {Ny, <<"0">>} :
        Looked /\ look.name = Nx \o <<".">> \o b =>
            LET i == FirstMatch(Nx, look.chain)
                av == lookupIn(Nx, look.chain[i]).v
            IN  IF i # 0 /\ lookupIn(b, av).found
                THEN /\ look.res.v = lookupIn(b, av).v
                     /\ look.res.ok = truth(look.res.v)
                ELSE look.res.v = NilV /\ ~look.res.ok

\* x.y has been looked up in [{x: {}, y: 1}, {x: {y: 1}}] and is absent
C13_Witness ==
    /\ Looked
    /\ look.name = <<"x", ".", "y">>
    /\ look.chain = <<MapV((Nx :> MapV(EmptyMap)) @@ (Ny :> IntV(1))),
                      MapV(Nx :> MapV(Ny :> IntV(1)))>>
    /\ look.res.v = NilV
    /\ ~look.res.ok


(***************************************************************************)
(* C14. lookup of a name in a struct context tries, in this order, an      *)
(* exported field of that name, then a zero-argument method of that name   *)
(* (returning its result), then an exported field whose mustache tag is    *)
(* the name; unexported fields, and tags on unexported fields, are never   *)
(* matched.                                                                *)
(***************************************************************************)
\* The exported fields of the struct that have the name
FieldsNamed(c, name) ==
    {i \in 1..Len(c.fields) : c.fields[i].pkgPath = << >> /\ c.fields[i].name = name}

\* The exported fields of the struct whose mustache tag is the name
FieldsTagged(c, name) ==
    {i \in 1..Len(c.fields) : c.fields[i].pkgPath = << >> /\ c.fields[i].tag = name}

C14_StructOrder ==
    Looked /\ Plain(look.name) /\ Len(look.chain) = 1 /\ look.chain[1].kind = "struct" =>
        LET c == look.chain[1]
            name == look.name
        IN  IF FieldsNamed(c, name) # {}
            THEN \E i \in FieldsNamed(c, name) : look.res.v = c.fields[i].v
            ELSE IF name \in DOMAIN c.methods /\ c.methods[name].numIn = 0
            THEN look.res.v = c.methods[name].out
            ELSE IF FieldsTagged(c, name) # {}
            THEN \E i \in FieldsTagged(c, name) : look.res.v = c.fields[i].v
            ELSE look.res.v = NilV /\ ~look.res.ok


(***************************************************************************)
(* C15. lookup of a name in an array or slice context matches only when    *)
(* the name parses as an integer i with 0 <= i < length, and returns       *)
(* element i; for a negative, out-of-range or non-numeric name the context *)
(* yields no match, and no error, and the next context is tried.           *)
(***************************************************************************)
\* The integers the numeric names looked up stand for
IndexOf ==
    (<<"0">> :> 0) @@ (<<"1">> :> 1) @@ (<<"2">> :> 2) @@ (<<"-", "1">> :> 0 - 1)
      @@ (<<"+", "1">> :> 1) @@ (<<"0", "1">> :> 1) @@ (<<"-", "0">> :> 0)

C15_ArrayIndex ==
    Looked /\ Plain(look.name) /\ look.chain # << >> /\ Head(look.chain).kind = "slice" =>
        LET es == Head(look.chain).elems
            name == look.name
        IN  IF name \in DOMAIN IndexOf /\ 0 <= IndexOf[name] /\ IndexOf[name] < Len(es)
            THEN /\ look.res.v = es[IndexOf[name] + 1]
                 /\ look.res.ok = truth(look.res.v)
            ELSE look.res = lookup(name, Tail(look.chain))

\* 1 has been looked up in [[], {y: 1, 1: "a"}]: out of range in the slice,
\* it came from the map
C15_Witness ==
    /\ Looked
    /\ look.name = <<"1">>
    /\ look.chain = <<SliceV(<< >>), MapV((Ny :> IntV(1)) @@ (<<"1">> :> StrV(<<"a">>)))>>
    /\ look.res.v = StrV(<<"a">>)


(***************************************************************************)
(* C16. truth: a sequence is truthy iff it is non-empty; signed and        *)
(* unsigned integers and floats iff they are > 0; a string iff it is       *)
(* non-empty; a boolean iff it is true; a pointer or interface iff it is   *)
(* non-nil and the value it refers to is truthy; an absent or invalid      *)
(* value is falsy.                                                         *)
(***************************************************************************)
C16_Truth ==
    look.state = "done" /\ look.op = "truth" =>
        LET v == look.val
        IN  look.res =
               CASE v.kind = "slice" -> v.elems # << >>
                 [] v.kind = "int" -> v.i > 0
                 [] v.kind = "uint" -> v.u > 0
                 [] v.kind = "float" -> v.f > 0
                 [] v.kind = "string" -> v.s # << >>
                 [] v.kind = "bool" -> v.b = TRUE
                 [] v.kind = "ptr" -> v.elem # NilV /\ truth(v.elem)
                 [] v.kind = "nil" -> FALSE

\* truth of the integer -1 has been computed: false
C16_Witness ==
    /\ look.state = "done"
    /\ look.op = "truth"
    /\ look.val = IntV(0 - 1)
    /\ look.res = FALSE


\* The error tokens the lexer handed to the parser during the last Parse
ErrorTokens == {i \in 1..Len(parsed.got) : parsed.got[i].typ = "t_error"}

(***************************************************************************)
(* C17. Whenever the lexer emits an error token during a parse (at top     *)
(* level, right after a & marker, or while the parser scans an open        *)
(* section body for its close tag), parse returns a syntax error carrying  *)
(* that token's line:column and message, and the parser requests no        *)
(* further token from the lexer after the error token.                     *)
(***************************************************************************)
C17_ErrorTokenEndsParse ==
    parsed.state = "done" /\ ErrorTokens # {} =>
        LET e == parsed.got[CHOOSE i \in ErrorTokens : \A j \in ErrorTokens : i <= j]
        IN  /\ parsed.how = "ok"
            /\ parsed.err.kind = "syntax"
            /\ parsed.err.line = e.line
            /\ parsed.err.col = e.col
            /\ parsed.err.arg.val = e.val
            /\ ~parsed.late


\* The last Parse read its input and returned an error made by the parser
ParseError ==
    /\ parsed.state = "done"
    /\ parsed.reader = NoErr
    /\ parsed.how = "ok"
    /\ parsed.err # NoErr

(***************************************************************************)
(* C18, as stated. Every error returned by parse carries the 1-based       *)
(* line:column of the offending token, in the form                         *)
(* "<line>:<col> syntax error: <message>", the error for a section whose   *)
(* close tag is never found included.                                      *)
(***************************************************************************)
C18_EveryErrorPositioned ==
    ParseError =>
        /\ parsed.err.kind = "syntax"
        /\ parsed.err.line >= 1
        /\ parsed.err.col >= 1

(***************************************************************************)
(* C18, amended. An error made by parser.errorf has the form               *)
(* "<line>:<col> syntax error: <message>" with the line:column of a token  *)
(* the lexer handed to the parser, or 0:0 when the token is the end of a   *)
(* section's body; every other error is 'token "t_ident" not found',       *)
(* without a position, and that is the error for a section whose close tag *)
(* is never found.                                                         *)
(***************************************************************************)
C18_ErrorPositions ==
    ParseError =>
        /\ \/ /\ parsed.err.kind = "syntax"
              /\ \/ \E i \in 1..Len(parsed.got) :
                        /\ parsed.got[i].line = parsed.err.line
                        /\ parsed.got[i].col = parsed.err.col
                 \/ /\ parsed.err.line = 0
                    /\ parsed.err.col = 0
                    /\ parsed.err.arg.typ = "t_eof"
           \/ parsed.err = NotFoundErr("t_ident")
        /\ parsed.source \in {SrcUnclosedSection, SrcCrossed} =>
              parsed.err = NotFoundErr("t_ident")

\* {{foo} has been parsed: 1:6 syntax error: unreachable code t_error:"unclosed tag"
C18_Witness ==
    /\ ParseError
    /\ parsed.source = SrcUnclosedTag
    /\ parsed.err = SyntaxErr([line |-> 1, col |-> 6], "unreachable code %s",
                              [typ |-> "t_error", val |-> <<"unclosed tag">>])


(***************************************************************************)
(* C19. A template in which an open tag of a section, an inverted section  *)
(* or a test_value section has no matching close tag of the same name, or  *)
(* in which a close tag has no open section, fails to parse: parse returns *)
(* an error and never a node tree.                                         *)
(***************************************************************************)
C19_UnbalancedFails ==
    parsed.state = "done" /\ parsed.reader = NoErr /\ parsed.source \in Unbalanced =>
        /\ parsed.how = "ok"
        /\ parsed.err # NoErr
        /\ elems["main"] = parsed.before

(***************************************************************************)
(* C20. Template.Parse replaces the node tree wholesale on success and     *)
(* leaves it untouched on failure: after a failing Parse the tree is the   *)
(* tree the template had before the call, and no partially built tree is   *)
(* installed; after a successful Parse it is the tree of the new source,   *)
(* whatever the tree before.                                               *)
(***************************************************************************)
C20_ParseReplacesOrKeeps ==
    parsed.state = "done" =>
        IF parsed.how = "ok" /\ parsed.err = NoErr
        THEN elems["main"] =
                TemplateParse(conf, [b |-> parsed.source, err |-> NoErr]).nodes
        ELSE elems["main"] = parsed.before

\* x{{/a}} has been parsed by a template that held a tree: parse had built
\* the text node when it failed, and the template still holds its old tree
C20_Witness ==
    /\ parsed.state = "done"
    /\ parsed.source = SrcStrayEnd
    /\ parsed.err # NoErr
    /\ parsed.nodes = <<textNode(<<"x">>)>>
    /\ parsed.before # << >>
    /\ elems["main"] = parsed.before

(***************************************************************************)
(* C21. A template with a function section {{~name}}body{{/name}} parses   *)
(* without error into a tree that holds a function section node; rendered, *)
(* it writes f(rendered body, options) when f is registered under name,    *)
(* the children reaching the output through f's return value only, and     *)
(* nothing when no function is registered.                                 *)
(***************************************************************************)
C21_FunctionSectionParses ==
    parsed.state = "done" /\ parsed.source = SrcFunction
    => /\ parsed.how = "ok"
       /\ parsed.err = NoErr
       /\ \E i \in 1..Len(elems["main"]) : elems["main"][i].type = "function"

(***************************************************************************)
(* C22. With the test-value extension enabled,                             *)
(* {{#test_value {{ident}} "lit"}}body{{/test_value}} renders body iff     *)
(* ident resolves to a present value whose unescaped string form is lit;   *)
(* the body is rendered with the chain the section received, the compared  *)
(* value not being pushed; nested test_value sections are matched by       *)
(* depth; on mismatch or absent ident nothing is written and no error is   *)
(* returned.                                                               *)
(***************************************************************************)
\* What {{b}} writes against the chain c under the template's escape mode
WritesB(c) ==
    IF lookup(Nb, c).v # NilV THEN print(lookup(Nb, c).v, conf.escape) ELSE << >>

RECURSIVE NestTree(_)
\* The tree of NestSrc(d)
NestTree(d) ==
    IF d = 0 THEN <<textNode(<<"x">>)>>
    ELSE <<sectionNode(Na, FALSE, NestTree(d - 1)), textNode(<<"y">>)>>

Parsed(src) == parsed.state = "done" /\ parsed.reader = NoErr /\ parsed.source = src

RawStringCalls(p) ==
    {e \in Calls(p) : /\ e.node.type = "var"
                       /\ e.node.escape = "noEscape"
                       /\ lookup(e.node.name, e.c).v.kind = "string"}

C24_EscapeFixedByTag ==
    /\ Parsed(SrcVars)
       => elems["main"] = <<varNode(Nx, conf.escape), varNode(Nx, "noEscape"),
                            varNode(Nx, "noEscape")>>
    /\ Parsed(SrcVarsInSection)
       => elems["main"] = <<sectionNode(Ns, FALSE, <<varNode(Nx, conf.escape),
                                                     varNode(Nx, "noEscape")>>)>>
    /\ Parsed(SrcVarsInTest)
       => elems["main"] = <<testNode(Na, Nv, <<varNode(Nx, conf.escape),
                                               varNode(Nx, "noEscape")>>)>>
    /\ \A p \in procs :
          \A e \in RawStringCalls(p) : e.w = lookup(e.node.name, e.c).v.s

\* {{x}}{{{x}}}{{&x}} parsed with HTML escaping as the default has rendered
\* x = <"& as &lt;&quot;&amp;<"&<"&
C24_Witness ==
    /\ IsDone(1)
    /\ Parsed(SrcVars)
    /\ conf.escape = "htmlEscape"
    /\ out[1] = <<"&", "l", "t", ";", "&", "q", "u", "o", "t", ";", "&", "a", "m", "p", ";", "<", "\"", "&", "<", "\"", "&">>

(***************************************************************************)
(* C25. A set delimiter tag whose interior is not exactly two non-empty    *)
(* parts separated by spaces (one part, or three or more) is a lexical     *)
(* error, and the parse fails.                                             *)
(***************************************************************************)
C25_MalformedSetDelimFails ==
    \A src \in MalformedSetDelims :
        Parsed(src)
        => /\ parsed.how = "ok"
           /\ parsed.err # NoErr
           /\ \E i \in 1..Len(parsed.got) : parsed.got[i].typ = "t_error"

(***************************************************************************)
(* C26. After a well-formed set delimiter tag {{=L R=}} every later tag of *)
(* the source is recognised with L and R only, the old delimiters being    *)
(* plain text, until the next such tag; the tag itself yields one          *)
(* t_set_delim token and no delimiter token; the delimiters the Template   *)
(* is configured with, which a later Parse uses, are not altered.          *)
(***************************************************************************)
\* The types and values of the tokens the parser got
GotTokens == [i \in 1..Len(parsed.got) |-> <<parsed.got[i].typ, parsed.got[i].val>>]

\* The tree of SrcSetDelim
SetDelimTree ==
    <<delimNode, varNode(Na, conf.escape), textNode(<<"{", "{", "b", "}", "}">>),
      delimNode, varNode(<<"c">>, conf.escape)>>

RECURSIVE TrimLeft(_)
TrimLeft(s) == IF s # << >> /\ whitespace(Head(s)) THEN TrimLeft(Tail(s)) ELSE s

RECURSIVE TrimRight(_)
TrimRight(s) ==
    IF s # << >> /\ whitespace(s[Len(s)]) THEN TrimRight(SubSeq(s, 1, Len(s) - 1)) ELSE s

\* The tokens of type typ the client has received
Received(typ) == {lex.stream[i] : i \in {j \in 1..Len(lex.stream) : lex.stream[j].typ = typ}}

C27_IdentTrimmed ==
    lex.status # "idle"
    => \A body \in TagBodies :
          /\ lex.l.input = lex.left \o body \o lex.right
             => /\ ~lex.l.panicked
                /\ \A t \in Received("t_ident") : t.val = TrimLeft(TrimRight(body))
                /\ lex.over => Received("t_ident") # {}
          /\ lex.l.input = lex.left \o body /\ lex.over
             => lex.stream[Len(lex.stream)].val = <<"unclosed tag">>

(***************************************************************************)
(* C28. Once the lexer has emitted an error token it emits no further      *)
(* token of any kind, not even t_eof, whatever the failure, a malformed    *)
(* set delimiter tag included.                                             *)
(***************************************************************************)
\* The tokens emitted so far, in order: those received and those in the
\* channel
Emitted == lex.stream \o lex.l.tokens

C28_ErrorTokenIsLast ==
    lex.status # "idle" /\ Len(lex.stream) < MaxTokens
    => \A i \in 1..(Len(Emitted) - 1) : Emitted[i].typ # "t_error"

(***************************************************************************)
(* C29. For every input and every pair of non-empty delimiters, pulling    *)
(* tokens ends after finitely many tokens, emitted in the order of the     *)
(* source from left to right; without a failure the stream ends with       *)
(* exactly one t_eof, emitted last, after the last text token.             *)
(***************************************************************************)
\* The client has received the token that ends the stream, or its call of
\* l.token() has ended otherwise
Ended == lex.status # "idle" /\ (lex.over \/ lex.status # "pulling")

\* Token i is not to the right of token j in the source
NotAfter(a, b) == a.line < b.line \/ (a.line = b.line /\ a.col <= b.col)

InSourceOrder ==
    lex.status # "idle" /\ Len(lex.stream) < MaxTokens
    => \A i \in 1..(Len(Emitted) - 1) : NotAfter(Emitted[i], Emitted[i + 1])

EofLast ==
    lex.status # "idle" /\ Len(lex.stream) < MaxTokens
    => \A i \in 1..Len(Emitted) : Emitted[i].typ = "t_eof" => i = Len(Emitted)

C29_PullingTerminates == [](InSourceOrder /\ EofLast) /\ <>Ended

(***************************************************************************)
(* C30. No state function of the lexer emits more than two tokens in one   *)
(* call, and l.token() runs a state function only when the channel is      *)
(* empty: the channel of capacity 2 never overflows and no emit blocks.    *)
(***************************************************************************)
C30_ChannelNeverOverflows ==
    lex.status # "idle"
    => /\ lex.status # "deadlock"
       /\ ~lex.l.blocked
       /\ Len(lex.l.tokens) <= ChanCap

\* A state function has filled the channel: stateText with the last text
\* and t_eof
C30_Witness ==
    /\ lex.status = "pulling"
    /\ Len(lex.l.tokens) = ChanCap
    /\ lex.l.tokens[1].typ = "t_text"
    /\ lex.l.tokens[2].typ = "t_eof"

====
